---------------------------- MODULE Spec2Model ----------------------------
(***************************************************************************)
(* Model of source/cy_mqtt_api.c: the MQTT client session manager.         *)
(*                                                                         *)
(* Spec      one created client (mqtt_obj), one application thread calling *)
(*           connect / publish / subscribe / unsubscribe / disconnect, the *)
(*           receive thread (pump), the disconnect event thread (worker),  *)
(*           the transport raising disconnect notifications and the MQTT   *)
(*           codec (MQTT_ProcessLoop dispatching packets of its choice).   *)
(* SpecSess  Spec with an application that connects, publishes and        *)
(*           disconnects.                                                  *)
(* SpecSub   Spec with an application that connects, subscribes,           *)
(*           unsubscribes and disconnects.                                 *)
(* SpecReg   the process-wide state: init / create / delete / deinit on    *)
(*           the handle database, called from two threads.                 *)
(* SpecLive  connect, publish, both threads and the transport, with the    *)
(*           scheduling the RTOS gives the disconnect event thread.        *)
(* SpecPub   two application threads publishing on the connected client    *)
(*           while the receive thread runs.                                *)
(* SpecTerm  the application thread and the receive thread, both scheduled *)
(*           fairly: the termination of the API calls.                     *)
(* SpecStore publishes and the receive thread on a connected client whose  *)
(*           outgoing publish store holds any unacknowledged publishes.    *)
(* SpecResend the same client connecting again: the publish resend.        *)
(* SpecRecv  mqtt_awsport_network_receive reading from the transport.      *)
(* SpecDel   connect and disconnect on the client, its deletion and the    *)
(*           disconnect event thread.                                      *)
(***************************************************************************)
EXTENDS Integers, Sequences, FiniteSets, TLC

(* ------------------------------ bounds -------------------------------- *)
\* CY_MQTT_MAX_OUTGOING_PUBLISHES (configuration macro, defined outside src/)
MAX_OUTGOING_PUBLISHES == 2
\* CY_MQTT_MAX_OUTGOING_SUBSCRIBES
MAX_OUTGOING_SUBSCRIBES == 2
\* CY_MQTT_MAX_HANDLE, also the capacity of the disconnect event queue
MAX_HANDLE == 2
\* CY_MQTT_MAX_RETRY_VALUE
MAX_RETRY_VALUE == 2
\* CY_MQTT_ACK_RECEIVE_TIMEOUT_MS / CY_MQTT_SOCKET_RECEIVE_TIMEOUT_MS
AckWaitIters == 2
\* attempts after which RetryUtils_BackoffAndSleep reports RetriesExhausted
MaxConnAttempts == 2
\* packet identifiers the codec hands out are 1..MaxPacketId
MaxPacketId == 2
\* DISCONNECT upcalls remembered per session
MaxUpcalls == 2
\* API calls the application makes on the client
MaxCalls == 3
\* CY_MQTT_MESSAGE_RECEIVE_TIMEOUT_MS, in clock ticks
CY_MQTT_MESSAGE_RECEIVE_TIMEOUT_MS == 3
\* the longest a single cy_awsport_network_receive takes, in clock ticks
MaxElapsedMs == 4
\* the most bytes the codec asks mqtt_awsport_network_receive for
MaxRecvBytes == 3
\* size_t is kept modulo this power of two
SizeModulus == 16

(* ----------------------------- constants ------------------------------ *)
MQTT_PACKET_ID_INVALID == 0
MQTTQoS0 == 0
MQTTSubAckFailure == 128
\* the negative return values of cy_awsport_network_receive
TransportErrors == {-1}

NoOwner == "free"
AppThreads == {"app1"}
\* the threads of the application that call cy_mqtt_publish on the client
Publishers == {"app1", "app2"}
PacketIds == 1 .. MaxPacketId
PubIndexes == 1 .. MAX_OUTGOING_PUBLISHES
SubIndexes == 1 .. MAX_OUTGOING_SUBSCRIBES

\* MQTTStatus_t values MQTT_ProcessLoop can return
FatalStatuses == {"MQTTRecvFailed", "MQTTSendFailed", "MQTTBadResponse",
                  "MQTTKeepAliveTimeout", "MQTTIllegalState"}
Statuses == {"MQTTSuccess", "MQTTBadParameter"} \cup FatalStatuses

VARIABLES
    mqtt_obj,                     \* the cy_mqtt_object_t of the client
    app,                          \* application threads: position and locals
    pump,                         \* mqtt_receive_thread: position and locals
    worker,                       \* mqtt_disconn_event_thread: position
    mqtt_disconnect_event_queue,  \* number of queued handles of the client
    net,                          \* transport connection of network_context
    codec_unacked,                \* codec: outgoing PUBLISH records awaiting an ACK
    upcalls,                      \* DISCONNECT events given to mqtt_event_cb in this session
    hist,                         \* how the latest MQTT session was opened and lost
    calls,                        \* API calls the application has made on the client
    mqtt_lib_init_status,
    mqtt_db_mutex_init_status,
    mqtt_handle_count,
    mqtt_handle_database,
    mqtt_obj_index,               \* mqtt_obj_index of each object, counted from 1, 0 when not registered
    mqtt_db_mutex,
    mqtt_disconnect_event_thread,
    reg,                          \* threads calling init/create/delete/deinit
    recv                          \* mqtt_awsport_network_receive: position and locals

sessVars == <<mqtt_obj, app, pump, worker, mqtt_disconnect_event_queue, net,
              codec_unacked, upcalls, hist, calls, recv>>
regVars == <<mqtt_lib_init_status, mqtt_db_mutex_init_status, mqtt_handle_count,
             mqtt_handle_database, mqtt_obj_index, mqtt_db_mutex,
             mqtt_disconnect_event_thread, reg>>
vars == <<mqtt_obj, app, pump, worker, mqtt_disconnect_event_queue, net,
          codec_unacked, upcalls, hist, calls, mqtt_lib_init_status,
          mqtt_db_mutex_init_status,
          mqtt_handle_count, mqtt_handle_database, mqtt_obj_index,
                   mqtt_db_mutex,
          mqtt_disconnect_event_thread, reg, recv>>

(* ------------------------- the client object -------------------------- *)
\* a cy_mqtt_pubpack_t after memset( 0 )
EmptyPubPacket == [packetid |-> MQTT_PACKET_ID_INVALID, qos |-> MQTTQoS0,
                   dup |-> FALSE, retain |-> FALSE, topic |-> 0]

\* the object as cy_mqtt_create leaves it
CreatedObject ==
    [mqtt_obj_initialized     |-> TRUE,
     mqtt_session_established |-> FALSE,
     broker_session_present   |-> FALSE,
     mqtt_conn_status         |-> FALSE,
     recv_thread              |-> FALSE,
     sub_ack_status           |-> [i \in SubIndexes |-> 0],
     num_of_subs_in_req       |-> 0,
     unsub_ack_received       |-> FALSE,
     pub_ack_status           |-> [packetid |-> 0, puback_status |-> FALSE],
     sent_packet_id           |-> 0,
     outgoing_pub_packets     |-> [i \in PubIndexes |-> EmptyPubPacket],
     process_mutex            |-> NoOwner]

mqtt_cleanup_outgoing_publish(pkts, index) ==
    IF index \in PubIndexes THEN [pkts EXCEPT ![index] = EmptyPubPacket] ELSE pkts

\* the first index holding packetid, 0 when there is none
FirstIndexWith(pkts, packetid) ==
    IF \E i \in PubIndexes : pkts[i].packetid = packetid
    THEN CHOOSE i \in PubIndexes :
            /\ pkts[i].packetid = packetid
            /\ \A j \in PubIndexes : j < i => pkts[j].packetid # packetid
    ELSE 0

\* a faulty cleanup that frees every slot when an ACK arrives
mqtt_cleanup_outgoing_publish_with_any_id(pkts, packetid) ==
    [i \in PubIndexes |-> EmptyPubPacket]

mqtt_cleanup_outgoing_publish_with_packet_id(pkts, packetid) ==
    IF packetid = MQTT_PACKET_ID_INVALID THEN pkts
    ELSE mqtt_cleanup_outgoing_publish(pkts, FirstIndexWith(pkts, packetid))

\* a faulty lookup that hands out the first slot when no slot is free
mqtt_get_next_free_index_reusing(pkts) ==
    IF FirstIndexWith(pkts, MQTT_PACKET_ID_INVALID) = 0 THEN 1
    ELSE FirstIndexWith(pkts, MQTT_PACKET_ID_INVALID)

mqtt_get_next_free_index_for_publish(pkts) ==
    FirstIndexWith(pkts, MQTT_PACKET_ID_INVALID)

mqtt_cleanup_outgoing_publishes(pkts) == [i \in PubIndexes |-> EmptyPubPacket]

\* a faulty mqtt_update_suback_status that copies the codes it was given even
\* when their number is not the number requested
mqtt_update_suback_status_copying(o, ok, codes) ==
    IF ~ok
    THEN [o EXCEPT !.num_of_subs_in_req = 0]
    ELSE [o EXCEPT !.sub_ack_status =
                       [i \in SubIndexes |->
                           IF i <= o.num_of_subs_in_req /\ i <= Len(codes)
                           THEN codes[i]
                           ELSE o.sub_ack_status[i]],
                   !.num_of_subs_in_req = 0]

\* SUBACK: codes is the sequence MQTT_GetSubAckStatusCodes yields, ok its status
mqtt_update_suback_status(o, ok, codes) ==
    IF (~ok) \/ Len(codes) # o.num_of_subs_in_req
    THEN [o EXCEPT !.num_of_subs_in_req = 0]
    ELSE [o EXCEPT !.sub_ack_status =
                       [i \in SubIndexes |->
                           IF i <= o.num_of_subs_in_req THEN codes[i]
                           ELSE o.sub_ack_status[i]],
                   !.num_of_subs_in_req = 0]


(* ------------------- the codec, as the code uses it ------------------- *)
NoPacket == [type |-> "NONE"]

\* return codes a SUBACK can carry
SubAckCodes == {0, 1, MQTTSubAckFailure}

SubAckCodeSeqs ==
    UNION {[1 .. n -> SubAckCodes] : n \in 1 .. MAX_OUTGOING_SUBSCRIBES}

\* the packets MQTT_ProcessLoop can hand to mqtt_event_callback
Packets ==
    {[type |-> "PUBLISH"], [type |-> "OTHER"]}
    \cup [type : {"PUBACK", "PUBREC"}, id : PacketIds, ok : BOOLEAN]
    \cup [type : {"SUBACK"}, id : PacketIds, ok : {TRUE}, codes : SubAckCodeSeqs]
    \cup [type : {"SUBACK"}, id : PacketIds, ok : {FALSE}, codes : {<<>>}]
    \cup [type : {"UNSUBACK"}, id : PacketIds]
    \cup [type : {"PINGRESP"}, ok : BOOLEAN]

SeqWithout(s, x) == SelectSeq(s, LAMBDA y : y # x)

InSeq(s, x) == \E i \in 1 .. Len(s) : s[i] = x

\* one MQTT_ProcessLoop call with a zero timeout: either no packet is read and
\* any status comes back, or one packet is dispatched and handling it succeeds
\* or fails
ProcessLoopOutcomes ==
    [pkt : {NoPacket}, status : Statuses]
    \cup [pkt : Packets, status : {"MQTTSuccess", "MQTTBadResponse"}]

\* the codec hands a well-formed PUBACK / PUBREC to the callback only for a
\* PUBLISH it holds a record of
MQTT_ProcessLoop(recs) ==
    {out \in ProcessLoopOutcomes :
        (out.pkt.type \in {"PUBACK", "PUBREC"} /\ out.pkt.ok) => InSeq(recs, out.pkt.id)}

\* a faulty mqtt_event_callback that takes any well-formed PUBACK / PUBREC for
\* the ACK of the publish in progress
EventCallbackAnyAck(o, pkt) ==
    CASE pkt.type = "SUBACK" ->
            IF o.sent_packet_id # pkt.id THEN o
            ELSE mqtt_update_suback_status(o, pkt.ok, pkt.codes)
      [] pkt.type = "UNSUBACK" ->
            [o EXCEPT !.unsub_ack_received = (o.sent_packet_id = pkt.id)]
      [] pkt.type = "PINGRESP" ->
            IF pkt.ok THEN o ELSE [o EXCEPT !.mqtt_session_established = FALSE]
      [] pkt.type \in {"PUBACK", "PUBREC"} ->
            LET acked == IF pkt.ok
                         THEN [o EXCEPT !.pub_ack_status.puback_status = TRUE]
                         ELSE o
            IN  [acked EXCEPT !.outgoing_pub_packets =
                    mqtt_cleanup_outgoing_publish_with_packet_id(
                        o.outgoing_pub_packets, pkt.id)]
      [] OTHER -> o

\* a faulty mqtt_event_callback that takes any UNSUBACK for the ACK of the
\* UNSUBSCRIBE in flight
EventCallbackAnyUnsubAck(o, pkt) ==
    CASE pkt.type = "SUBACK" ->
            IF o.sent_packet_id # pkt.id THEN o
            ELSE mqtt_update_suback_status(o, pkt.ok, pkt.codes)
      [] pkt.type = "UNSUBACK" ->
            [o EXCEPT !.unsub_ack_received = TRUE]
      [] pkt.type = "PINGRESP" ->
            IF pkt.ok THEN o ELSE [o EXCEPT !.mqtt_session_established = FALSE]
      [] pkt.type \in {"PUBACK", "PUBREC"} ->
            LET acked == IF pkt.ok
                         THEN [o EXCEPT !.pub_ack_status.puback_status =
                                           (pkt.id = o.pub_ack_status.packetid)]
                         ELSE o
            IN  [acked EXCEPT !.outgoing_pub_packets =
                    mqtt_cleanup_outgoing_publish_with_packet_id(
                        o.outgoing_pub_packets, pkt.id)]
      [] OTHER -> o

\* mqtt_event_callback on the object of the handle the database resolves
EventCallbackBody(o, pkt) ==
    CASE pkt.type = "SUBACK" ->
            IF o.sent_packet_id # pkt.id THEN o
            ELSE mqtt_update_suback_status(o, pkt.ok, pkt.codes)
      [] pkt.type = "UNSUBACK" ->
            [o EXCEPT !.unsub_ack_received = (o.sent_packet_id = pkt.id)]
      [] pkt.type = "PINGRESP" ->
            IF pkt.ok THEN o ELSE [o EXCEPT !.mqtt_session_established = FALSE]
      [] pkt.type \in {"PUBACK", "PUBREC"} ->
            LET acked == IF pkt.ok
                         THEN [o EXCEPT !.pub_ack_status.puback_status =
                                           (pkt.id = o.pub_ack_status.packetid)]
                         ELSE o
            IN  [acked EXCEPT !.outgoing_pub_packets =
                    mqtt_cleanup_outgoing_publish_with_packet_id(
                        o.outgoing_pub_packets, pkt.id)]
      [] OTHER -> o

\* the handle of the codec context, 0 (NULL) when no slot holds it
ResolveHandle(db, ctx) ==
    IF \E i \in 1 .. MAX_HANDLE : db[i] = ctx THEN ctx ELSE 0

mqtt_event_callback(o, pkt) ==
    IF ResolveHandle(mqtt_handle_database, 1) = 0 THEN o
    ELSE EventCallbackBody(o, pkt)

Upcall(ups, reason) ==
    IF Len(ups) < MaxUpcalls THEN Append(ups, reason) ELSE ups

\* the DISCONNECT upcalls after mqtt_event_callback has handled pkt
UpcallsAfter(ups, pkt) ==
    IF pkt.type = "PINGRESP" /\ ~pkt.ok
       /\ ResolveHandle(mqtt_handle_database, 1) # 0
    THEN Upcall(ups, "BROKER_DOWN") ELSE ups

\* the codec's outgoing PUBLISH records after a PUBACK / PUBREC was handled
CodecAfterPacket(recs, pkt) ==
    IF pkt.type \in {"PUBACK", "PUBREC"} /\ pkt.ok THEN SeqWithout(recs, pkt.id)
    ELSE recs

\* ... after MQTT_Publish sent a PUBLISH of this QoS and packet id
CodecAfterPublish(recs, qos, packetid) ==
    IF qos = MQTTQoS0 \/ packetid = MQTT_PACKET_ID_INVALID \/ InSeq(recs, packetid)
    THEN recs ELSE Append(recs, packetid)

\* ... after MQTT_Connect got a CONNACK with this sessionPresent flag
CodecAfterConnect(recs, session_present) ==
    IF session_present THEN recs ELSE <<>>

\* MQTT_PublishToResend: the packet id at the cursor, 0 past the end
MQTT_PublishToResend(recs, cursor) ==
    IF cursor + 1 <= Len(recs) THEN recs[cursor + 1] ELSE MQTT_PACKET_ID_INVALID

(* ------------------------- application threads ------------------------ *)
IdleLocals ==
    [pc |-> "idle", op |-> "none", result |-> "SUCCESS", clean |-> FALSE,
     attempts |-> 0, cursor |-> 0, ran |-> "none", resent |-> <<>>,
     expect |-> <<>>, pre |-> FALSE, qos |-> 0, index |-> 0, retry |-> 0,
     timeout |-> 0, count |-> 0, alloc |-> <<>>, sent |-> FALSE,
     seen |-> FALSE, codes |-> <<>>, miscount |-> FALSE, retain |-> FALSE]

Holds(t) == mqtt_obj.process_mutex = t

\* cy_rtos_get_mutex( process_mutex, NEVER_TIMEOUT ) can return
MutexFree == mqtt_obj.process_mutex = NoOwner

Goto(t, l) == app' = [app EXCEPT ![t] = l]

\* the call returns: what stays visible is the call, its result and outputs
Ret(t, l, result) ==
    Goto(t, [IdleLocals EXCEPT !.pc = "ret", !.op = l.op, !.result = result,
                               !.clean = l.clean, !.ran = l.ran,
                               !.resent = l.resent, !.expect = l.expect,
                               !.pre = l.pre, !.alloc = l.alloc, !.sent = l.sent])

Return(t) ==
    /\ app[t].pc = "ret"
    /\ app' = [app EXCEPT ![t] = IdleLocals]
    /\ UNCHANGED <<mqtt_obj, pump, worker, mqtt_disconnect_event_queue, net,
                   codec_unacked, upcalls, hist>>
    /\ UNCHANGED <<calls, regVars, recv>>

(* ------------------------------ connect ------------------------------- *)
\* create_clean_session as cy_mqtt_connect computes it from cleanSession
CreateCleanSession(cleanSession) == IF cleanSession = TRUE THEN FALSE ELSE TRUE

\* whether cy_mqtt_connect takes the publish-resend branch
ResendBranch(o, create_clean_session) ==
    (o.broker_session_present = TRUE) /\ (create_clean_session = FALSE)

\* RetryUtils_BackoffAndSleep after this many failed attempts
RetriesExhausted(attempts) == attempts >= MaxConnAttempts

\* entry: argument checks and the will message checks
ConnectStart(t) ==
    /\ app[t].pc = "idle"
    /\ \E clean \in BOOLEAN, will_ok \in BOOLEAN :
          IF ~mqtt_obj.mqtt_obj_initialized
          THEN Ret(t, [app[t] EXCEPT !.op = "connect"], "OBJ_NOT_INITIALIZED")
          ELSE IF ~will_ok
          THEN Ret(t, [app[t] EXCEPT !.op = "connect"], "CONNECT_FAIL")
          ELSE Goto(t, [app[t] EXCEPT !.pc = "c_net", !.op = "connect",
                                      !.clean = clean])
    /\ UNCHANGED <<mqtt_obj, pump, worker, mqtt_disconnect_event_queue, net,
                   codec_unacked, upcalls, hist>>
    /\ calls < MaxCalls
    /\ calls' = calls + 1
    /\ UNCHANGED <<regVars, recv>>

\* one round of the TCP/TLS retry loop
ConnectNet(t) ==
    /\ app[t].pc = "c_net"
    /\ \E outcome \in {"ok", "create_fail", "connect_fail"} :
          LET n == app[t].attempts + 1
              l == [app[t] EXCEPT !.attempts = n]
          IN  CASE outcome = "ok" ->
                     /\ net' = "up"
                     /\ Goto(t, [app[t] EXCEPT !.pc = "c_est_lock"])
                [] outcome = "create_fail" ->
                     /\ net' = net
                     /\ IF RetriesExhausted(n) THEN Ret(t, l, "NET_ERR")
                        ELSE Goto(t, l)
                [] outcome = "connect_fail" ->
                     /\ net' = "none"
                     /\ IF RetriesExhausted(n) THEN Ret(t, l, "CONNECT_FAIL")
                        ELSE Goto(t, l)
    /\ UNCHANGED <<mqtt_obj, pump, worker, mqtt_disconnect_event_queue,
                   codec_unacked, upcalls, hist>>
    /\ UNCHANGED <<calls, regVars, recv>>

\* mqtt_establish_session: take process_mutex
EstablishLock(t) ==
    /\ app[t].pc = "c_est_lock"
    /\ MutexFree
    /\ mqtt_obj' = [mqtt_obj EXCEPT !.process_mutex = t]
    /\ Goto(t, [app[t] EXCEPT !.pc = "c_est"])
    /\ UNCHANGED <<pump, worker, mqtt_disconnect_event_queue, net,
                   codec_unacked, upcalls, hist>>
    /\ UNCHANGED <<calls, regVars, recv>>

\* mqtt_establish_session: MQTT_Connect, then release process_mutex.  A CONNACK
\* arrives only over a transport that is still up.
EstablishSession(t) ==
    /\ app[t].pc = "c_est"
    /\ \E ok \in BOOLEAN, session_present \in BOOLEAN :
          IF ok /\ net = "up"
          THEN /\ mqtt_obj' = [mqtt_obj EXCEPT
                                 !.broker_session_present = session_present,
                                 !.mqtt_session_established = TRUE,
                                 !.process_mutex = NoOwner]
               /\ codec_unacked' = CodecAfterConnect(codec_unacked, session_present)
               /\ upcalls' = <<>>
               /\ hist' = IF app[t].clean THEN "clean" ELSE "persistent"
               /\ Goto(t, [app[t] EXCEPT !.pc = "c_thread",
                                         !.expect = codec_unacked',
                                         !.pre = (hist = "persistent_dropped")])
          ELSE /\ mqtt_obj' = [mqtt_obj EXCEPT !.process_mutex = NoOwner]
               /\ Goto(t, [app[t] EXCEPT !.pc = "c_exit", !.result = "CONNECT_FAIL"])
               /\ UNCHANGED <<codec_unacked, upcalls, hist>>
    /\ UNCHANGED <<pump, worker, mqtt_disconnect_event_queue, net>>
    /\ UNCHANGED <<calls, regVars, recv>>

PumpStopped == [pc |-> "none", mqtt_status |-> "MQTTSuccess"]

PumpStarted == [pc |-> "acquire", mqtt_status |-> "MQTTSuccess"]

\* after mqtt_establish_session: the receive thread is created when recv_thread
\* is NULL, then the unacked publishes are resent or the outgoing publish store
\* is cleaned and the call returns
ConnectBranch(t) ==
    /\ app[t].pc = "c_thread"
    /\ \E created \in BOOLEAN :
          IF mqtt_obj.recv_thread = FALSE /\ ~created
          THEN /\ Goto(t, [app[t] EXCEPT !.pc = "c_exit", !.result = "OS_ERR"])
               /\ UNCHANGED <<mqtt_obj, pump>>
          ELSE /\ pump' = IF mqtt_obj.recv_thread = FALSE THEN PumpStarted ELSE pump
               /\ IF ResendBranch(mqtt_obj, CreateCleanSession(app[t].clean))
                  THEN /\ mqtt_obj' = [mqtt_obj EXCEPT !.recv_thread = TRUE]
                       /\ Goto(t, [app[t] EXCEPT !.pc = "c_resend",
                                                 !.ran = "resend", !.cursor = 0])
                  ELSE /\ mqtt_obj' = [mqtt_obj EXCEPT
                                         !.recv_thread = TRUE,
                                         !.outgoing_pub_packets =
                                             mqtt_cleanup_outgoing_publishes(@),
                                         !.mqtt_conn_status = TRUE]
                       /\ Ret(t, [app[t] EXCEPT !.ran = "cleanup"], "SUCCESS")
    /\ UNCHANGED <<worker, mqtt_disconnect_event_queue, net, codec_unacked,
                   upcalls, hist>>
    /\ UNCHANGED <<calls, regVars, recv>>

\* mqtt_handle_publish_resend: one round of its while loop
PublishResend(t) ==
    /\ app[t].pc = "c_resend"
    /\ LET packetid_to_resend == MQTT_PublishToResend(codec_unacked, app[t].cursor)
           pkts == mqtt_obj.outgoing_pub_packets
           index == FirstIndexWith(pkts, packetid_to_resend)
           l == [app[t] EXCEPT !.cursor = @ + 1]
       IN  IF packetid_to_resend = MQTT_PACKET_ID_INVALID
           THEN \* the loop ends with the result of the sends made
                /\ IF app[t].result = "SUCCESS"
                   THEN /\ mqtt_obj' = [mqtt_obj EXCEPT !.mqtt_conn_status = TRUE]
                        /\ Ret(t, app[t], "SUCCESS")
                   ELSE /\ Goto(t, [app[t] EXCEPT !.pc = "c_exit"])
                        /\ UNCHANGED mqtt_obj
                /\ UNCHANGED codec_unacked
           ELSE IF index = 0
           THEN \* not found in outgoing_pub_packets
                /\ Goto(t, [l EXCEPT !.pc = "c_exit", !.result = "PUBLISH_FAIL"])
                /\ UNCHANGED <<mqtt_obj, codec_unacked>>
           ELSE IF pkts[index].qos = MQTTQoS0
           THEN /\ Goto(t, l)
                /\ UNCHANGED <<mqtt_obj, codec_unacked>>
           ELSE \E sent \in BOOLEAN :
                /\ mqtt_obj' = [mqtt_obj EXCEPT
                                  !.outgoing_pub_packets[index].dup = TRUE]
                /\ codec_unacked' =
                      IF sent THEN CodecAfterPublish(codec_unacked, pkts[index].qos,
                                                     pkts[index].packetid)
                      ELSE codec_unacked
                /\ Goto(t, [l EXCEPT
                              !.resent = Append(@, [id |-> pkts[index].packetid,
                                                    dup |-> TRUE]),
                              !.result = IF sent THEN @ ELSE "PUBLISH_FAIL"])
    /\ UNCHANGED <<pump, worker, mqtt_disconnect_event_queue, net, upcalls, hist>>
    /\ UNCHANGED <<calls, regVars, recv>>

\* a faulty exit path that forgets recv_thread without stopping the thread
ConnectExitForgettingThread(t) ==
    /\ app[t].pc = "c_exit"
    /\ mqtt_obj' = [mqtt_obj EXCEPT !.mqtt_session_established = FALSE,
                                    !.recv_thread = FALSE]
    /\ net' = "none"
    /\ Ret(t, app[t], app[t].result)
    /\ UNCHANGED <<pump, worker, mqtt_disconnect_event_queue, codec_unacked,
                   upcalls, hist>>
    /\ UNCHANGED <<calls, regVars, recv>>

\* a faulty exit label that leaves mqtt_session_established as it is
ConnectExitKeepingSession(t) ==
    /\ app[t].pc = "c_exit"
    /\ mqtt_obj' = [mqtt_obj EXCEPT !.recv_thread = FALSE]
    /\ pump' = IF mqtt_obj.recv_thread THEN PumpStopped ELSE pump
    /\ net' = "none"
    /\ Ret(t, app[t], app[t].result)
    /\ UNCHANGED <<worker, mqtt_disconnect_event_queue, codec_unacked, upcalls, hist>>
    /\ UNCHANGED <<calls, regVars, recv>>

\* the exit label: MQTT_Disconnect when the session is established, the receive
\* thread terminated and joined, the transport disconnected and deleted
ConnectExit(t) ==
    /\ app[t].pc = "c_exit"
    /\ mqtt_obj' = [mqtt_obj EXCEPT !.mqtt_session_established = FALSE,
                                    !.recv_thread = FALSE]
    /\ pump' = IF mqtt_obj.recv_thread THEN PumpStopped ELSE pump
    /\ net' = "none"
    /\ Ret(t, app[t], app[t].result)
    /\ UNCHANGED <<worker, mqtt_disconnect_event_queue, codec_unacked, upcalls, hist>>
    /\ UNCHANGED <<calls, regVars, recv>>

(* ------------------------------ publish ------------------------------- *)
\* everything an application step leaves alone besides mqtt_obj, app,
\* codec_unacked and upcalls
AppFrame ==
    /\ UNCHANGED <<pump, worker, mqtt_disconnect_event_queue, net, hist>>
    /\ UNCHANGED <<calls, regVars, recv>>

\* the application makes one more call
StartFrame ==
    /\ calls < MaxCalls
    /\ calls' = calls + 1
    /\ UNCHANGED <<pump, worker, mqtt_disconnect_event_queue, net, hist>>
    /\ UNCHANGED <<regVars, recv>>

QosInputs == 0 .. 3

\* pubmsg->topic, pubmsg->payload: each caller publishes a message of its own
TopicOf(t) == IF t = "app1" THEN 1 ELSE 2

\* entry checks of cy_mqtt_publish, the read of mqtt_session_established
\* included; pubmsg->retain is an input no line of the call reads, the local
\* keeps it until the first MQTT_Publish of the call
PublishStart(t) ==
    /\ app[t].pc = "idle"
    /\ \E qos \in QosInputs, retain \in BOOLEAN :
          LET l == [app[t] EXCEPT !.op = "publish", !.qos = qos,
                                  !.retain = retain]
          IN  IF ~mqtt_obj.mqtt_obj_initialized
              THEN Ret(t, l, "OBJ_NOT_INITIALIZED")
              ELSE IF mqtt_obj.mqtt_session_established = FALSE
              THEN Ret(t, l, "NOT_CONNECTED")
              ELSE Goto(t, [l EXCEPT !.pc = "p_slot"])
    /\ UNCHANGED <<mqtt_obj, codec_unacked, upcalls>>
    /\ StartFrame

\* the free slot is looked up and filled before process_mutex is taken
PublishSlot(t) ==
    /\ app[t].pc = "p_slot"
    /\ LET publishIndex ==
               mqtt_get_next_free_index_for_publish(mqtt_obj.outgoing_pub_packets)
       IN  IF publishIndex = 0 \/ app[t].qos \notin 0 .. 2
           THEN /\ Ret(t, app[t], "PUBLISH_FAIL")
                /\ UNCHANGED mqtt_obj
           ELSE /\ mqtt_obj' = [mqtt_obj EXCEPT
                                  !.outgoing_pub_packets[publishIndex].qos = app[t].qos,
                                  !.outgoing_pub_packets[publishIndex].topic =
                                        TopicOf(t)]
                /\ Goto(t, [app[t] EXCEPT !.pc = "p_lock", !.index = publishIndex])
    /\ UNCHANGED <<codec_unacked, upcalls>>
    /\ AppFrame

\* a faulty cy_mqtt_publish that does not wait for process_mutex
PublishLockWithoutWait(t) ==
    /\ app[t].pc = "p_lock"
    /\ \E id \in PacketIds :
          mqtt_obj' = [mqtt_obj EXCEPT
                         !.outgoing_pub_packets[app[t].index].packetid = id,
                         !.pub_ack_status.packetid = id]
    /\ Goto(t, [app[t] EXCEPT !.pc = "p_send", !.retry = 0])
    /\ UNCHANGED <<codec_unacked, upcalls>>
    /\ AppFrame

\* cy_rtos_get_mutex( process_mutex ), then MQTT_GetPacketId for the slot
PublishLock(t) ==
    /\ app[t].pc = "p_lock"
    /\ MutexFree
    /\ \E id \in PacketIds :
          mqtt_obj' = [mqtt_obj EXCEPT
                         !.process_mutex = t,
                         !.outgoing_pub_packets[app[t].index].packetid = id,
                         !.pub_ack_status.packetid = id]
    /\ Goto(t, [app[t] EXCEPT !.pc = "p_send", !.retry = 0])
    /\ UNCHANGED <<codec_unacked, upcalls>>
    /\ AppFrame

\* where a retry loop goes after a round: again while the round failed and
\* retries remain
AfterRound(ok, retry, again, end) ==
    IF (~ok) /\ retry < MAX_RETRY_VALUE THEN again ELSE end

\* MQTT_Publish accepts a PUBLISH that has a topic and, above QoS0, a packet id
PublishAccepted(slot) ==
    /\ slot.topic # 0
    /\ slot.qos = MQTTQoS0 \/ slot.packetid # MQTT_PACKET_ID_INVALID

\* a faulty cy_mqtt_publish that waits for an ACK at every QoS
WaitsForAckAlways(qos) == TRUE

\* cy_mqtt_publish runs the ACK wait for a PUBLISH above QoS0 only
WaitsForAck(qos) == qos # MQTTQoS0

\* MQTT_Publish of one round of the retry loop
PublishSend(t) ==
    /\ app[t].pc = "p_send"
    /\ LET slot == mqtt_obj.outgoing_pub_packets[app[t].index]
           o == [mqtt_obj EXCEPT !.pub_ack_status.puback_status = FALSE]
       IN  \E sent \in BOOLEAN :
             IF sent /\ PublishAccepted(slot)
             THEN /\ codec_unacked' =
                        CodecAfterPublish(codec_unacked, slot.qos, slot.packetid)
                  /\ IF WaitsForAck(slot.qos)
                     THEN /\ mqtt_obj' = o
                          /\ Goto(t, [app[t] EXCEPT !.pc = "p_wait",
                                                    !.timeout = AckWaitIters,
                                                    !.sent = TRUE,
                                                    !.retain = FALSE])
                     ELSE /\ mqtt_obj' = [o EXCEPT
                                 !.outgoing_pub_packets[app[t].index].dup = TRUE]
                          /\ Goto(t, [app[t] EXCEPT !.pc = "p_end",
                                                    !.result = "SUCCESS",
                                                    !.retry = @ + 1,
                                                    !.sent = TRUE,
                                                    !.retain = FALSE])
             ELSE /\ mqtt_obj' = o
                  /\ codec_unacked' = codec_unacked
                  /\ Goto(t, [app[t] EXCEPT
                                !.pc = AfterRound(FALSE, app[t].retry + 1,
                                                  "p_send", "p_end"),
                                !.result = "PUBLISH_FAIL",
                                !.retry = @ + 1,
                                !.retain = FALSE])
    /\ UNCHANGED upcalls
    /\ AppFrame

\* this MQTT_ProcessLoop returned success having dispatched a well-formed
\* PUBACK / PUBREC that carries the packet id of the publish in progress
OwnAckArrived(o, out) ==
    /\ out.status = "MQTTSuccess"
    /\ out.pkt.type \in {"PUBACK", "PUBREC"}
    /\ out.pkt.ok
    /\ out.pkt.id = o.pub_ack_status.packetid

\* one MQTT_ProcessLoop of the wait for the PUBACK / PUBREC
PublishWait(t) ==
    /\ app[t].pc = "p_wait"
    /\ \E out \in MQTT_ProcessLoop(codec_unacked) :
          LET o == mqtt_event_callback(mqtt_obj, out.pkt)
              acked == o.pub_ack_status.puback_status
              done == out.status # "MQTTSuccess" \/ acked \/ app[t].timeout - 1 <= 0
              ok == out.status = "MQTTSuccess" /\ acked
              seen == app[t].seen \/ OwnAckArrived(mqtt_obj, out)
          IN  /\ codec_unacked' = CodecAfterPacket(codec_unacked, out.pkt)
              /\ upcalls' = UpcallsAfter(upcalls, out.pkt)
              /\ IF done
                 THEN /\ mqtt_obj' = [o EXCEPT
                             !.outgoing_pub_packets[app[t].index].dup = TRUE]
                      /\ Goto(t, [app[t] EXCEPT
                                    !.pc = AfterRound(ok, app[t].retry + 1,
                                                      "p_send", "p_end"),
                                    !.result = IF ok THEN "SUCCESS" ELSE "PUBLISH_FAIL",
                                    !.retry = @ + 1,
                                    !.timeout = 0,
                                    !.seen = seen])
                 ELSE /\ mqtt_obj' = o
                      /\ Goto(t, [app[t] EXCEPT !.timeout = @ - 1, !.seen = seen])
    /\ AppFrame

\* a faulty cy_mqtt_publish that leaves its slot as it is when it returns
PublishEndKeepingSlot(t) ==
    /\ app[t].pc = "p_end"
    /\ mqtt_obj' = [mqtt_obj EXCEPT !.process_mutex = NoOwner]
    /\ Ret(t, app[t], app[t].result)
    /\ UNCHANGED <<codec_unacked, upcalls>>
    /\ AppFrame

\* after the retry loop: clean the slot up on failure or for QoS0, release
PublishEnd(t) ==
    /\ app[t].pc = "p_end"
    /\ LET index == app[t].index
           pkts == mqtt_obj.outgoing_pub_packets
       IN  mqtt_obj' = [mqtt_obj EXCEPT
               !.outgoing_pub_packets =
                   IF app[t].result # "SUCCESS" \/ pkts[index].qos = MQTTQoS0
                   THEN mqtt_cleanup_outgoing_publish(pkts, index) ELSE pkts,
               !.process_mutex = NoOwner]
    /\ Ret(t, app[t], app[t].result)
    /\ UNCHANGED <<codec_unacked, upcalls>>
    /\ AppFrame

(* ----------------------------- subscribe ------------------------------ *)
SubCountInputs == 0 .. MAX_OUTGOING_SUBSCRIBES + 1

\* a faulty translation that takes every return code for a grant
AllocatedQosIgnoringFailure(code) ==
    IF code = 0 THEN "QOS0"
    ELSE IF code = 1 THEN "QOS1"
    ELSE "QOS2"

\* allocated_qos the caller gets for a SUBACK return code
AllocatedQos(code) ==
    IF code = MQTTSubAckFailure THEN "INVALID"
    ELSE IF code = 0 THEN "QOS0"
    ELSE IF code = 1 THEN "QOS1"
    ELSE "QOS2"

\* entry checks of cy_mqtt_subscribe and the copy of the request into sub_list
SubscribeStart(t) ==
    /\ app[t].pc = "idle"
    /\ \E sub_count \in SubCountInputs, qos_ok \in BOOLEAN, mem_ok \in BOOLEAN :
          LET l == [app[t] EXCEPT !.op = "subscribe", !.count = sub_count]
          IN  IF sub_count < 1 \/ sub_count > MAX_OUTGOING_SUBSCRIBES
              THEN Ret(t, l, "BADARG")
              ELSE IF ~mqtt_obj.mqtt_obj_initialized
              THEN Ret(t, l, "OBJ_NOT_INITIALIZED")
              ELSE IF mqtt_obj.mqtt_session_established = FALSE
              THEN Ret(t, l, "NOT_CONNECTED")
              ELSE IF ~mem_ok
              THEN Ret(t, l, "NOMEM")
              ELSE IF ~qos_ok
              THEN Ret(t, l, "SUBSCRIBE_FAIL")
              ELSE Goto(t, [l EXCEPT !.pc = "s_lock",
                                     !.alloc = [i \in 1 .. sub_count |-> "INVALID"]])
    /\ UNCHANGED <<mqtt_obj, codec_unacked, upcalls>>
    /\ StartFrame

\* cy_rtos_get_mutex( process_mutex ), then MQTT_GetPacketId into sent_packet_id
RequestLock(t, from, to) ==
    /\ app[t].pc = from
    /\ MutexFree
    /\ \E id \in PacketIds :
          mqtt_obj' = [mqtt_obj EXCEPT !.process_mutex = t, !.sent_packet_id = id]
    /\ Goto(t, [app[t] EXCEPT !.pc = to, !.retry = 0])
    /\ UNCHANGED <<codec_unacked, upcalls>>
    /\ AppFrame

SubscribeLock(t) ==
    /\ app[t].op = "subscribe"
    /\ RequestLock(t, "s_lock", "s_send")

\* MQTT_Subscribe of one round of the retry loop
SubscribeSend(t) ==
    /\ app[t].pc = "s_send"
    /\ LET sub_count == app[t].count
           o == [mqtt_obj EXCEPT !.sub_ack_status = [i \in SubIndexes |-> 0],
                                 !.num_of_subs_in_req = sub_count]
       IN  \E sent \in BOOLEAN :
             IF sent
             THEN /\ mqtt_obj' = [o EXCEPT !.sub_ack_status =
                                     [i \in SubIndexes |->
                                         IF i <= sub_count THEN MQTTSubAckFailure
                                         ELSE 0]]
                  /\ Goto(t, [app[t] EXCEPT !.pc = "s_wait",
                                            !.result = "SUBSCRIBE_FAIL",
                                            !.timeout = AckWaitIters,
                                            !.sent = TRUE])
             ELSE /\ mqtt_obj' = o
                  /\ Goto(t, [app[t] EXCEPT
                                !.pc = AfterRound(FALSE, app[t].retry + 1,
                                                  "s_send", "s_end"),
                                !.result = "SUBSCRIBE_FAIL",
                                !.retry = @ + 1])
    /\ UNCHANGED <<codec_unacked, upcalls>>
    /\ AppFrame

\* this MQTT_ProcessLoop returned success having dispatched a well-formed
\* SUBACK with the packet id of the SUBSCRIBE in flight and one return code
\* per requested topic
SubAckArrived(o, out, sub_count) ==
    /\ out.status = "MQTTSuccess"
    /\ out.pkt.type = "SUBACK"
    /\ out.pkt.ok
    /\ out.pkt.id = o.sent_packet_id
    /\ Len(out.pkt.codes) = sub_count

\* this MQTT_ProcessLoop returned success having dispatched a well-formed
\* SUBACK with the packet id of the SUBSCRIBE in flight whose number of return
\* codes is not the number of requested topics
SubAckMiscounted(o, out, sub_count) ==
    /\ out.status = "MQTTSuccess"
    /\ out.pkt.type = "SUBACK"
    /\ out.pkt.ok
    /\ out.pkt.id = o.sent_packet_id
    /\ Len(out.pkt.codes) # sub_count

\* one MQTT_ProcessLoop of the wait for the SUBACK
SubscribeWait(t) ==
    /\ app[t].pc = "s_wait"
    /\ \E out \in MQTT_ProcessLoop(codec_unacked) :
          LET o == mqtt_event_callback(mqtt_obj, out.pkt)
              sub_count == app[t].count
              failed == out.status # "MQTTSuccess"
              acked == o.num_of_subs_in_req = 0
              granted == \E i \in 1 .. sub_count :
                            o.sub_ack_status[i] # MQTTSubAckFailure
              done == failed \/ acked \/ app[t].timeout - 1 <= 0
              ok == (~failed) /\ acked
              l == IF ok
                   THEN [app[t] EXCEPT
                           !.alloc = [i \in 1 .. sub_count |->
                                         AllocatedQos(o.sub_ack_status[i])],
                           !.result = IF granted THEN "SUCCESS" ELSE "SUBSCRIBE_FAIL",
                           !.codes = IF SubAckArrived(mqtt_obj, out, sub_count)
                                     THEN out.pkt.codes ELSE <<>>,
                           !.miscount = SubAckMiscounted(mqtt_obj, out, sub_count)]
                   ELSE [app[t] EXCEPT !.result = "SUBSCRIBE_FAIL"]
          IN  /\ mqtt_obj' = o
              /\ codec_unacked' = CodecAfterPacket(codec_unacked, out.pkt)
              /\ upcalls' = UpcallsAfter(upcalls, out.pkt)
              /\ IF done
                 THEN Goto(t, [l EXCEPT
                                 !.pc = AfterRound(ok, app[t].retry + 1,
                                                   "s_send", "s_end"),
                                 !.retry = @ + 1,
                                 !.timeout = 0])
                 ELSE Goto(t, [app[t] EXCEPT !.timeout = @ - 1])
    /\ AppFrame

\* both ends of a subscribe / unsubscribe release process_mutex
RequestEnd(t, from) ==
    /\ app[t].pc = from
    /\ mqtt_obj' = [mqtt_obj EXCEPT !.process_mutex = NoOwner]
    /\ Ret(t, app[t], app[t].result)
    /\ UNCHANGED <<codec_unacked, upcalls>>
    /\ AppFrame

SubscribeEnd(t) ==
    /\ app[t].op = "subscribe"
    /\ RequestEnd(t, "s_end")

(* ---------------------------- unsubscribe ----------------------------- *)
UnsubscribeStart(t) ==
    /\ app[t].pc = "idle"
    /\ \E unsub_count \in SubCountInputs, qos_ok \in BOOLEAN, mem_ok \in BOOLEAN :
          LET l == [app[t] EXCEPT !.op = "unsubscribe", !.count = unsub_count]
          IN  IF unsub_count < 1
              THEN Ret(t, l, "BADARG")
              ELSE IF ~mqtt_obj.mqtt_obj_initialized
              THEN Ret(t, l, "OBJ_NOT_INITIALIZED")
              ELSE IF mqtt_obj.mqtt_session_established = FALSE
              THEN Ret(t, l, "NOT_CONNECTED")
              ELSE IF unsub_count > MAX_OUTGOING_SUBSCRIBES
              THEN Ret(t, l, "UNSUBSCRIBE_FAIL")
              ELSE IF ~mem_ok
              THEN Ret(t, l, "NOMEM")
              ELSE IF ~qos_ok
              THEN Ret(t, l, "UNSUBSCRIBE_FAIL")
              ELSE Goto(t, [l EXCEPT !.pc = "u_lock"])
    /\ UNCHANGED <<mqtt_obj, codec_unacked, upcalls>>
    /\ StartFrame

UnsubscribeLock(t) ==
    /\ app[t].op = "unsubscribe"
    /\ RequestLock(t, "u_lock", "u_send")

\* MQTT_Unsubscribe of one round of the retry loop
UnsubscribeSend(t) ==
    /\ app[t].pc = "u_send"
    /\ mqtt_obj' = [mqtt_obj EXCEPT !.unsub_ack_received = FALSE]
    /\ \E sent \in BOOLEAN :
          IF sent
          THEN Goto(t, [app[t] EXCEPT !.pc = "u_wait", !.timeout = AckWaitIters,
                                      !.sent = TRUE])
          ELSE Goto(t, [app[t] EXCEPT
                          !.pc = AfterRound(FALSE, app[t].retry + 1,
                                            "u_send", "u_end"),
                          !.result = "UNSUBSCRIBE_FAIL",
                          !.retry = @ + 1])
    /\ UNCHANGED <<codec_unacked, upcalls>>
    /\ AppFrame

\* this MQTT_ProcessLoop returned success having dispatched an UNSUBACK with
\* the packet id of the UNSUBSCRIBE in flight
UnsubAckArrived(o, out) ==
    /\ out.status = "MQTTSuccess"
    /\ out.pkt.type = "UNSUBACK"
    /\ out.pkt.id = o.sent_packet_id

\* one MQTT_ProcessLoop of the wait for the UNSUBACK
UnsubscribeWait(t) ==
    /\ app[t].pc = "u_wait"
    /\ \E out \in MQTT_ProcessLoop(codec_unacked) :
          LET o == mqtt_event_callback(mqtt_obj, out.pkt)
              failed == out.status # "MQTTSuccess"
              acked == o.unsub_ack_received
              done == failed \/ acked \/ app[t].timeout - 1 <= 0
              ok == (~failed) /\ acked
          IN  /\ mqtt_obj' = o
              /\ codec_unacked' = CodecAfterPacket(codec_unacked, out.pkt)
              /\ upcalls' = UpcallsAfter(upcalls, out.pkt)
              /\ IF done
                 THEN Goto(t, [app[t] EXCEPT
                                 !.pc = AfterRound(ok, app[t].retry + 1,
                                                   "u_send", "u_end"),
                                 !.result = IF ok THEN "SUCCESS"
                                            ELSE "UNSUBSCRIBE_FAIL",
                                 !.retry = @ + 1,
                                 !.timeout = 0,
                                 !.seen = UnsubAckArrived(mqtt_obj, out)])
                 ELSE Goto(t, [app[t] EXCEPT !.timeout = @ - 1])
    /\ AppFrame

UnsubscribeEnd(t) ==
    /\ app[t].op = "unsubscribe"
    /\ RequestEnd(t, "u_end")

(* ----------------------------- disconnect ----------------------------- *)
DisconnectStart(t) ==
    /\ app[t].pc = "idle"
    /\ Goto(t, [app[t] EXCEPT !.pc = "d_lock", !.op = "disconnect"])
    /\ UNCHANGED <<mqtt_obj, codec_unacked, upcalls>>
    /\ StartFrame

\* outcomes of cy_rtos_terminate_thread followed by cy_rtos_join_thread
StopOutcomes == {"stopped", "terminate_failed", "join_failed"}

\* process_mutex is taken, the object and connection are checked and the
\* receive thread is stopped; the early returns keep process_mutex
DisconnectCheck(t) ==
    /\ app[t].pc = "d_lock"
    /\ MutexFree
    /\ LET o == [mqtt_obj EXCEPT !.process_mutex = t]
       IN  IF o.mqtt_obj_initialized = FALSE
           THEN /\ mqtt_obj' = o
                /\ Ret(t, app[t], "OBJ_NOT_INITIALIZED")
                /\ UNCHANGED pump
           ELSE IF o.mqtt_conn_status = FALSE
           THEN /\ mqtt_obj' = o
                /\ Ret(t, app[t], "NOT_CONNECTED")
                /\ UNCHANGED pump
           ELSE IF o.recv_thread
           THEN \E stop \in StopOutcomes :
                   CASE stop = "terminate_failed" ->
                          /\ mqtt_obj' = o
                          /\ Ret(t, app[t], "OS_ERR")
                          /\ UNCHANGED pump
                     [] stop = "join_failed" ->
                          /\ mqtt_obj' = o
                          /\ pump' = PumpStopped
                          /\ Ret(t, app[t], "OS_ERR")
                     [] stop = "stopped" ->
                          /\ mqtt_obj' = [o EXCEPT !.recv_thread = FALSE]
                          /\ pump' = PumpStopped
                          /\ Goto(t, [app[t] EXCEPT !.pc = "d_disc"])
           ELSE /\ mqtt_obj' = o
                /\ Goto(t, [app[t] EXCEPT !.pc = "d_disc"])
                /\ UNCHANGED pump
    /\ UNCHANGED <<worker, mqtt_disconnect_event_queue, net, codec_unacked,
                   upcalls, hist>>
    /\ UNCHANGED <<calls, regVars, recv>>

\* MQTT_Disconnect, the transport closed and deleted, process_mutex released
DisconnectEnd(t) ==
    /\ app[t].pc = "d_disc"
    /\ mqtt_obj' = [mqtt_obj EXCEPT !.mqtt_session_established = FALSE,
                                    !.mqtt_conn_status = FALSE,
                                    !.process_mutex = NoOwner]
    /\ net' = "none"
    /\ Ret(t, app[t], "SUCCESS")
    /\ UNCHANGED <<pump, worker, mqtt_disconnect_event_queue, codec_unacked,
                   upcalls, hist>>
    /\ UNCHANGED <<calls, regVars, recv>>

(* ------------------ mqtt_receive_thread (the pump) -------------------- *)
PumpFrame ==
    /\ UNCHANGED <<app, worker, mqtt_disconnect_event_queue, net, hist>>
    /\ UNCHANGED <<calls, regVars, recv>>

\* a faulty receive thread that calls MQTT_ProcessLoop whatever the session
PumpAcquireIgnoringSession ==
    /\ pump.pc = "acquire"
    /\ MutexFree
    /\ mqtt_obj' = [mqtt_obj EXCEPT !.process_mutex = "pump"]
    /\ pump' = [pump EXCEPT !.pc = "pl"]
    /\ UNCHANGED <<codec_unacked, upcalls>>
    /\ PumpFrame

\* cy_rtos_get_mutex, then the read of mqtt_session_established
PumpAcquire ==
    /\ pump.pc = "acquire"
    /\ MutexFree
    /\ mqtt_obj' = [mqtt_obj EXCEPT !.process_mutex = "pump"]
    /\ pump' = [pump EXCEPT !.pc = IF mqtt_obj.mqtt_session_established
                                   THEN "pl" ELSE "rel"]
    /\ UNCHANGED <<codec_unacked, upcalls>>
    /\ PumpFrame

\* MQTT_ProcessLoop and the test of its status
PumpProcessLoop ==
    /\ pump.pc = "pl"
    /\ \E out \in MQTT_ProcessLoop(codec_unacked) :
          /\ mqtt_obj' = mqtt_event_callback(mqtt_obj, out.pkt)
          /\ codec_unacked' = CodecAfterPacket(codec_unacked, out.pkt)
          /\ upcalls' = UpcallsAfter(upcalls, out.pkt)
          /\ pump' = [pc |-> IF out.status = "MQTTKeepAliveTimeout" THEN "cb"
                             ELSE "rel",
                      mqtt_status |-> out.status]
    /\ PumpFrame

\* mqtt_event_cb( DISCONNECT, BROKER_DOWN )
PumpCallback ==
    /\ pump.pc = "cb"
    /\ upcalls' = Upcall(upcalls, "BROKER_DOWN")
    /\ pump' = [pump EXCEPT !.pc = "clr"]
    /\ UNCHANGED <<mqtt_obj, codec_unacked>>
    /\ PumpFrame

\* mqtt_session_established = false, cy_rtos_set_mutex, the sleep
PumpClear ==
    /\ pump.pc = "clr"
    /\ mqtt_obj' = [mqtt_obj EXCEPT !.mqtt_session_established = FALSE,
                                    !.process_mutex = NoOwner]
    /\ pump' = PumpStarted
    /\ UNCHANGED <<codec_unacked, upcalls>>
    /\ PumpFrame

\* cy_rtos_set_mutex, then the sleep before the next round
PumpRelease ==
    /\ pump.pc = "rel"
    /\ mqtt_obj' = [mqtt_obj EXCEPT !.process_mutex = NoOwner]
    /\ pump' = PumpStarted
    /\ UNCHANGED <<codec_unacked, upcalls>>
    /\ PumpFrame

(* -------------- mqtt_disconn_event_thread (the worker) ---------------- *)
WorkerFrame ==
    /\ UNCHANGED <<app, pump, net, codec_unacked, hist>>
    /\ UNCHANGED <<calls, regVars, recv>>

\* cy_rtos_get_queue
WorkerGet ==
    /\ worker = "get"
    /\ mqtt_disconnect_event_queue > 0
    /\ mqtt_disconnect_event_queue' = mqtt_disconnect_event_queue - 1
    /\ worker' = "lock"
    /\ UNCHANGED <<mqtt_obj, upcalls>>
    /\ WorkerFrame

WorkerLock ==
    /\ worker = "lock"
    /\ MutexFree
    /\ mqtt_obj' = [mqtt_obj EXCEPT !.process_mutex = "worker"]
    /\ worker' = IF mqtt_obj.mqtt_session_established = TRUE THEN "cb" ELSE "rel"
    /\ UNCHANGED <<mqtt_disconnect_event_queue, upcalls>>
    /\ WorkerFrame

\* mqtt_event_cb( DISCONNECT, NETWORK_DOWN )
WorkerCallback ==
    /\ worker = "cb"
    /\ upcalls' = Upcall(upcalls, "NETWORK_DOWN")
    /\ worker' = "clr"
    /\ UNCHANGED <<mqtt_obj, mqtt_disconnect_event_queue>>
    /\ WorkerFrame

\* a faulty worker that leaves mqtt_session_established as it is
WorkerClearKeepingSession ==
    /\ worker = "clr"
    /\ mqtt_obj' = [mqtt_obj EXCEPT !.process_mutex = NoOwner]
    /\ worker' = "get"
    /\ UNCHANGED <<mqtt_disconnect_event_queue, upcalls>>
    /\ WorkerFrame

\* mqtt_session_established = false, then cy_rtos_set_mutex
WorkerClear ==
    /\ worker = "clr"
    /\ mqtt_obj' = [mqtt_obj EXCEPT !.mqtt_session_established = FALSE,
                                    !.process_mutex = NoOwner]
    /\ worker' = "get"
    /\ UNCHANGED <<mqtt_disconnect_event_queue, upcalls>>
    /\ WorkerFrame

WorkerRelease ==
    /\ worker = "rel"
    /\ mqtt_obj' = [mqtt_obj EXCEPT !.process_mutex = NoOwner]
    /\ worker' = "get"
    /\ UNCHANGED <<mqtt_disconnect_event_queue, upcalls>>
    /\ WorkerFrame

(* --------------------------- the transport ---------------------------- *)
\* the connection drops: mqtt_awsport_network_disconnect_callback puts the
\* handle on the queue when there is room within its timeout
mqtt_awsport_network_disconnect_callback ==
    /\ net = "up"
    /\ net' = "dropped"
    /\ mqtt_disconnect_event_queue' =
          IF mqtt_disconnect_event_queue < MAX_HANDLE
          THEN mqtt_disconnect_event_queue + 1
          ELSE mqtt_disconnect_event_queue
    /\ hist' = IF hist = "persistent" /\ mqtt_obj.mqtt_session_established
               THEN "persistent_dropped" ELSE hist
    /\ UNCHANGED <<mqtt_obj, app, pump, worker, codec_unacked, upcalls>>
    /\ UNCHANGED <<calls, regVars, recv>>

(* -------------------- mqtt_awsport_network_receive -------------------- *)
\* size_t values are kept modulo SizeModulus
ToSize(n) == n % SizeModulus

\* the locals of mqtt_awsport_network_receive; called and waited record
\* whether cy_awsport_network_receive was called and the time spent in its
\* zero-byte calls since the last data (counted up to WaitedCap)
RecvIdle ==
    [pc |-> "idle", bytes_recv |-> 0, bytes_received |-> 0, total_received |-> 0,
     remainingTimeMs |-> 0, result |-> 0, called |-> FALSE, waited |-> 0]

WaitedCap == CY_MQTT_MESSAGE_RECEIVE_TIMEOUT_MS + MaxElapsedMs

\* what cy_awsport_network_receive can return when asked for bytestoread
\* bytes: an error, or no more bytes than it was asked for
TransportReturns(bytestoread) == TransportErrors \cup (0 .. bytestoread)

\* a faulty round that hands back the bytes read so far when the transport
\* fails after partial data
ReceiveRoundKeepingPartial(l, bytes_received, elapsedTimeMs) ==
    IF bytes_received < 0
    THEN [l EXCEPT !.pc = "ret", !.bytes_received = bytes_received,
                   !.called = TRUE,
                   !.result = IF l.total_received > 0 THEN l.total_received
                              ELSE bytes_received]
    ELSE IF bytes_received = 0 /\ l.total_received = 0
    THEN [l EXCEPT !.pc = "ret", !.bytes_received = 0, !.called = TRUE,
                   !.result = l.total_received]
    ELSE LET total == l.total_received + bytes_received
             remaining == IF bytes_received > 0
                          THEN CY_MQTT_MESSAGE_RECEIVE_TIMEOUT_MS
                          ELSE ToSize(l.remainingTimeMs - elapsedTimeMs)
             again == total < l.bytes_recv /\ remaining > 0
         IN  [l EXCEPT !.pc = IF again THEN "loop" ELSE "ret",
                       !.bytes_received = bytes_received,
                       !.total_received = total,
                       !.remainingTimeMs = remaining,
                       !.result = IF again THEN 0 ELSE total,
                       !.called = TRUE,
                       !.waited = IF bytes_received > 0 THEN 0
                                  ELSE IF @ + elapsedTimeMs > WaitedCap
                                  THEN WaitedCap ELSE @ + elapsedTimeMs]

\* one round of the do-while loop: cy_awsport_network_receive returned
\* bytes_received after elapsedTimeMs
ReceiveRound(l, bytes_received, elapsedTimeMs) ==
    IF bytes_received < 0
    THEN [l EXCEPT !.pc = "ret", !.bytes_received = bytes_received,
                   !.called = TRUE, !.result = bytes_received]
    ELSE IF bytes_received = 0 /\ l.total_received = 0
    THEN [l EXCEPT !.pc = "ret", !.bytes_received = 0, !.called = TRUE,
                   !.result = l.total_received]
    ELSE LET total == l.total_received + bytes_received
             remaining == IF bytes_received > 0
                          THEN CY_MQTT_MESSAGE_RECEIVE_TIMEOUT_MS
                          ELSE ToSize(l.remainingTimeMs - elapsedTimeMs)
             again == total < l.bytes_recv /\ remaining > 0
         IN  [l EXCEPT !.pc = IF again THEN "loop" ELSE "ret",
                       !.bytes_received = bytes_received,
                       !.total_received = total,
                       !.remainingTimeMs = remaining,
                       !.result = IF again THEN 0 ELSE total,
                       !.called = TRUE,
                       !.waited = IF bytes_received > 0 THEN 0
                                  ELSE IF @ + elapsedTimeMs > WaitedCap
                                  THEN WaitedCap ELSE @ + elapsedTimeMs]

RecvFrame == UNCHANGED <<mqtt_obj, app, pump, worker, mqtt_disconnect_event_queue,
                         net, codec_unacked, upcalls, hist, calls, regVars>>

\* the codec calls the receive function for bytes_recv bytes
ReceiveStart ==
    /\ recv.pc = "idle"
    /\ \E bytes_recv \in 0 .. MaxRecvBytes :
          recv' = [RecvIdle EXCEPT !.pc = "loop", !.bytes_recv = bytes_recv,
                     !.remainingTimeMs = CY_MQTT_MESSAGE_RECEIVE_TIMEOUT_MS]
    /\ RecvFrame

\* cy_awsport_network_receive between two readings of the clock
ReceiveCall ==
    /\ recv.pc = "loop"
    /\ \E bytes_received \in TransportReturns(recv.bytes_recv - recv.total_received),
          elapsedTimeMs \in 0 .. MaxElapsedMs :
          recv' = ReceiveRound(recv, bytes_received, elapsedTimeMs)
    /\ RecvFrame

ReceiveReturn ==
    /\ recv.pc = "ret"
    /\ recv' = RecvIdle
    /\ RecvFrame

NextRecv == ReceiveStart \/ ReceiveCall \/ ReceiveReturn

(* ------------- the library: init, create, delete, deinit -------------- *)
RegThreads == {"r1", "r2"}

RegIdle == [pc |-> "idle", op |-> "none", result |-> "SUCCESS", handle |-> 0,
            pre |-> FALSE]

\* object identities malloc can return
Handles == 1 .. MAX_HANDLE + Cardinality(RegThreads)

RegGoto(r, l) == reg' = [reg EXCEPT ![r] = l]

RegRet(r, l, result) == RegGoto(r, [l EXCEPT !.pc = "ret", !.result = result])

RegReturn(r) ==
    /\ reg[r].pc = "ret"
    /\ RegGoto(r, RegIdle)
    /\ UNCHANGED <<mqtt_lib_init_status, mqtt_db_mutex_init_status,
                   mqtt_handle_count, mqtt_handle_database, mqtt_obj_index,
                   mqtt_db_mutex,
                   mqtt_disconnect_event_thread>>
    /\ UNCHANGED sessVars

\* the first step of cy_mqtt_init that fails, "none" when all succeed
InitFailures == {"none", "mutex", "network", "queue", "thread"}

cy_mqtt_init(r) ==
    /\ reg[r].pc = "idle"
    /\ \E failure \in InitFailures :
          LET l == [reg[r] EXCEPT !.op = "init"]
          IN  IF mqtt_lib_init_status = TRUE
              THEN /\ RegRet(r, l, "SUCCESS")
                   /\ UNCHANGED <<mqtt_lib_init_status, mqtt_db_mutex_init_status,
                                  mqtt_disconnect_event_thread>>
              ELSE IF failure # "none"
              THEN /\ RegRet(r, l, "OS_ERR")
                   /\ mqtt_db_mutex_init_status' =
                         IF failure = "mutex" THEN mqtt_db_mutex_init_status ELSE FALSE
                   /\ UNCHANGED <<mqtt_lib_init_status, mqtt_disconnect_event_thread>>
              ELSE /\ RegRet(r, l, "SUCCESS")
                   /\ mqtt_db_mutex_init_status' = TRUE
                   /\ mqtt_disconnect_event_thread' = TRUE
                   /\ mqtt_lib_init_status' = TRUE
    /\ UNCHANGED <<mqtt_handle_count, mqtt_handle_database, mqtt_obj_index,
                   mqtt_db_mutex>>
    /\ UNCHANGED sessVars

\* the first step of cy_mqtt_deinit that fails, "none" when all succeed
DeinitFailures == {"none", "mutex", "network", "thread", "queue"}

cy_mqtt_deinit(r) ==
    /\ reg[r].pc = "idle"
    /\ \E failure \in DeinitFailures :
          LET l == [reg[r] EXCEPT
                      !.op = "deinit",
                      !.pre = mqtt_lib_init_status /\ mqtt_db_mutex_init_status
                              /\ mqtt_handle_count # 0]
          IN  IF mqtt_lib_init_status = FALSE \/ mqtt_db_mutex_init_status = FALSE
              THEN /\ RegRet(r, l, "DEINIT_FAIL")
                   /\ UNCHANGED <<mqtt_lib_init_status, mqtt_db_mutex_init_status,
                                  mqtt_disconnect_event_thread>>
              ELSE IF mqtt_handle_count # 0
              THEN \* result still holds CY_RSLT_SUCCESS
                   /\ RegRet(r, l, "SUCCESS")
                   /\ UNCHANGED <<mqtt_lib_init_status, mqtt_db_mutex_init_status,
                                  mqtt_disconnect_event_thread>>
              ELSE /\ RegRet(r, l, IF failure = "none" THEN "SUCCESS" ELSE "OS_ERR")
                   /\ mqtt_db_mutex_init_status' =
                         IF failure = "mutex" THEN mqtt_db_mutex_init_status ELSE FALSE
                   /\ mqtt_disconnect_event_thread' =
                         IF failure \in {"mutex", "network", "thread"}
                         THEN mqtt_disconnect_event_thread ELSE FALSE
                   /\ mqtt_lib_init_status' =
                         IF failure = "none" THEN FALSE ELSE mqtt_lib_init_status
    /\ UNCHANGED <<mqtt_handle_count, mqtt_handle_database, mqtt_obj_index,
                   mqtt_db_mutex>>
    /\ UNCHANGED sessVars

RegFrame ==
    /\ UNCHANGED <<mqtt_lib_init_status, mqtt_db_mutex_init_status,
                   mqtt_disconnect_event_thread>>
    /\ UNCHANGED sessVars

\* argument and library checks of cy_mqtt_create
CreateStart(r) ==
    /\ reg[r].pc = "idle"
    /\ \E args_ok \in BOOLEAN :
          LET l == [reg[r] EXCEPT !.op = "create"]
          IN  IF ~args_ok THEN RegRet(r, l, "BADARG")
              ELSE IF mqtt_lib_init_status = FALSE \/ mqtt_db_mutex_init_status = FALSE
              THEN RegRet(r, l, "CREATE_FAIL")
              ELSE RegGoto(r, [l EXCEPT !.pc = "cr_lock"])
    /\ UNCHANGED <<mqtt_handle_count, mqtt_handle_database, mqtt_obj_index,
                   mqtt_db_mutex>>
    /\ RegFrame

\* cy_rtos_get_mutex( mqtt_db_mutex ) at these positions
DbLock(r, from, to) ==
    /\ reg[r].pc = from
    /\ mqtt_db_mutex = NoOwner
    /\ mqtt_db_mutex' = r
    /\ RegGoto(r, [reg[r] EXCEPT !.pc = to])
    /\ UNCHANGED <<mqtt_handle_count, mqtt_handle_database, mqtt_obj_index>>
    /\ RegFrame

CreateLock(r) ==
    /\ reg[r].op = "create"
    /\ \/ DbLock(r, "cr_lock", "cr_count")
       \/ DbLock(r, "cr_lock2", "cr_slot")

\* the handle count is compared under mqtt_db_mutex, which is released again
CreateCount(r) ==
    /\ reg[r].pc = "cr_count"
    /\ mqtt_db_mutex' = NoOwner
    /\ IF mqtt_handle_count >= MAX_HANDLE
       THEN RegRet(r, reg[r], "CREATE_FAIL")
       ELSE RegGoto(r, [reg[r] EXCEPT !.pc = "cr_alloc"])
    /\ UNCHANGED <<mqtt_handle_count, mqtt_handle_database, mqtt_obj_index>>
    /\ RegFrame

\* handles in the database or in the hands of a thread
LiveHandles ==
    {mqtt_handle_database[i] : i \in 1 .. MAX_HANDLE}
    \cup {reg[r].handle : r \in RegThreads}

\* malloc, process_mutex and the core library of the new object
CreateAlloc(r) ==
    /\ reg[r].pc = "cr_alloc"
    /\ \E outcome \in {"ok", "nomem", "setup_failed"} :
          CASE outcome = "nomem" -> RegRet(r, reg[r], "NOMEM")
            [] outcome = "setup_failed" -> RegRet(r, reg[r], "OS_ERR")
            [] outcome = "ok" ->
                 RegGoto(r, [reg[r] EXCEPT
                               !.pc = "cr_lock2",
                               !.handle = CHOOSE h \in Handles \ LiveHandles :
                                             \A g \in Handles \ LiveHandles : h <= g])
    /\ UNCHANGED <<mqtt_handle_count, mqtt_handle_database, mqtt_obj_index,
                   mqtt_db_mutex>>
    /\ RegFrame

\* a faulty slot search that starts at the last slot of the database
FreeSlotFromEnd(db) ==
    IF \E i \in 1 .. MAX_HANDLE : db[i] = 0
    THEN CHOOSE i \in 1 .. MAX_HANDLE :
            db[i] = 0 /\ \A j \in 1 .. MAX_HANDLE : j > i => db[j] # 0
    ELSE 0

\* a faulty slot search that hands out the first slot when the database is full
FreeSlotReusing(db) ==
    IF \E i \in 1 .. MAX_HANDLE : db[i] = 0
    THEN CHOOSE i \in 1 .. MAX_HANDLE :
            db[i] = 0 /\ \A j \in 1 .. MAX_HANDLE : j < i => db[j] # 0
    ELSE 1

\* index of the first free slot of mqtt_handle_database, 0 when it is full
FreeSlot(db) ==
    IF \E i \in 1 .. MAX_HANDLE : db[i] = 0
    THEN CHOOSE i \in 1 .. MAX_HANDLE :
            db[i] = 0 /\ \A j \in 1 .. MAX_HANDLE : j < i => db[j] # 0
    ELSE 0

\* the database and the handle count
Registry == [db |-> mqtt_handle_database, count |-> mqtt_handle_count,
             index |-> mqtt_obj_index]

\* cy_mqtt_create registers object h in the free slot it found
RegistryAfterCreate(st, h) ==
    [db |-> [st.db EXCEPT ![FreeSlot(st.db)] = h], count |-> st.count + 1,
     index |-> [st.index EXCEPT ![h] = FreeSlot(st.db)]]

\* a faulty cy_mqtt_delete that clears the slot and keeps the handle count
RegistryAfterDeleteKeepingCount(st, h) ==
    [db |-> [i \in 1 .. MAX_HANDLE |-> IF i = st.index[h] THEN 0 ELSE st.db[i]],
     count |-> st.count,
     index |-> [st.index EXCEPT ![h] = 0]]

\* cy_mqtt_delete clears the slot at the mqtt_obj_index of object h, counts the
\* handle down and clears the object
RegistryAfterDelete(st, h) ==
    [db |-> [i \in 1 .. MAX_HANDLE |-> IF i = st.index[h] THEN 0 ELSE st.db[i]],
     count |-> st.count - 1,
     index |-> [st.index EXCEPT ![h] = 0]]

\* the slot search under mqtt_db_mutex
CreateSlot(r) ==
    /\ reg[r].pc = "cr_slot"
    /\ mqtt_db_mutex' = NoOwner
    /\ LET slot_index == FreeSlot(mqtt_handle_database)
           after == RegistryAfterCreate(Registry, reg[r].handle)
       IN  IF slot_index = 0
           THEN /\ RegRet(r, [reg[r] EXCEPT !.handle = 0], "CREATE_FAIL")
                /\ UNCHANGED <<mqtt_handle_count, mqtt_handle_database, mqtt_obj_index>>
           ELSE /\ mqtt_handle_database' = after.db
                /\ mqtt_handle_count' = after.count
                /\ mqtt_obj_index' = after.index
                /\ RegRet(r, [reg[r] EXCEPT !.handle = 0], "SUCCESS")
    /\ RegFrame

\* cy_mqtt_delete of a created client no other thread is deleting
DeleteStart(r) ==
    /\ reg[r].pc = "idle"
    /\ \E h \in Handles :
          /\ \E i \in 1 .. MAX_HANDLE : mqtt_handle_database[i] = h
          /\ \A q \in RegThreads : reg[q].handle # h
          /\ RegGoto(r, [reg[r] EXCEPT !.pc = "dl_lock", !.op = "delete",
                                       !.handle = h])
    /\ UNCHANGED <<mqtt_handle_count, mqtt_handle_database, mqtt_obj_index,
                   mqtt_db_mutex>>
    /\ RegFrame

DeleteLock(r) ==
    /\ reg[r].op = "delete"
    /\ DbLock(r, "dl_lock", "dl_clear")

\* the slot of the client is cleared under mqtt_db_mutex
DeleteClear(r) ==
    /\ reg[r].pc = "dl_clear"
    /\ mqtt_db_mutex' = NoOwner
    /\ LET after == RegistryAfterDelete(Registry, reg[r].handle)
       IN  /\ mqtt_handle_database' = after.db
           /\ mqtt_handle_count' = after.count
           /\ mqtt_obj_index' = after.index
    /\ RegRet(r, [reg[r] EXCEPT !.handle = 0], "SUCCESS")
    /\ RegFrame

\* nothing initialized, no client
InitReg ==
    /\ mqtt_obj = CreatedObject
    /\ app = [t \in Publishers |-> IdleLocals]
    /\ pump = PumpStopped
    /\ worker = "get"
    /\ mqtt_disconnect_event_queue = 0
    /\ net = "none"
    /\ codec_unacked = <<>>
    /\ upcalls = <<>>
    /\ hist = "none"
    /\ calls = 0
    /\ mqtt_lib_init_status = FALSE
    /\ mqtt_db_mutex_init_status = FALSE
    /\ mqtt_handle_count = 0
    /\ mqtt_handle_database = [i \in 1 .. MAX_HANDLE |-> 0]
    /\ mqtt_obj_index = [h \in Handles |-> 0]
    /\ mqtt_db_mutex = NoOwner
    /\ mqtt_disconnect_event_thread = FALSE
    /\ reg = [r \in RegThreads |-> RegIdle]
    /\ recv = RecvIdle

NextReg ==
    \E r \in RegThreads :
       \/ cy_mqtt_init(r) \/ cy_mqtt_deinit(r)
       \/ CreateStart(r) \/ CreateLock(r) \/ CreateCount(r) \/ CreateAlloc(r)
       \/ CreateSlot(r)
       \/ DeleteStart(r) \/ DeleteLock(r) \/ DeleteClear(r)
       \/ RegReturn(r)

SpecReg == InitReg /\ [][NextReg]_vars

(* ------------------------- the specification -------------------------- *)
\* the library initialized and one client created, not yet connected
Init ==
    /\ mqtt_obj = CreatedObject
    /\ app = [t \in Publishers |-> IdleLocals]
    /\ pump = PumpStopped
    /\ worker = "get"
    /\ mqtt_disconnect_event_queue = 0
    /\ net = "none"
    /\ codec_unacked = <<>>
    /\ upcalls = <<>>
    /\ hist = "none"
    /\ calls = 0
    /\ mqtt_lib_init_status = TRUE
    /\ mqtt_db_mutex_init_status = TRUE
    /\ mqtt_handle_count = 1
    /\ mqtt_handle_database = [i \in 1 .. MAX_HANDLE |-> IF i = 1 THEN 1 ELSE 0]
    /\ mqtt_obj_index = [h \in Handles |-> IF h = 1 THEN 1 ELSE 0]
    /\ mqtt_db_mutex = NoOwner
    /\ mqtt_disconnect_event_thread = TRUE
    /\ reg = [r \in RegThreads |-> RegIdle]
    /\ recv = RecvIdle

Next ==
    \/ \E t \in AppThreads :
          \/ ConnectStart(t) \/ ConnectNet(t) \/ EstablishLock(t)
          \/ EstablishSession(t) \/ ConnectBranch(t)
          \/ PublishResend(t) \/ ConnectExit(t)
          \/ PublishStart(t) \/ PublishSlot(t) \/ PublishLock(t)
          \/ PublishSend(t) \/ PublishWait(t) \/ PublishEnd(t)
          \/ SubscribeStart(t) \/ SubscribeLock(t)
          \/ SubscribeSend(t) \/ SubscribeWait(t) \/ SubscribeEnd(t)
          \/ UnsubscribeStart(t) \/ UnsubscribeLock(t)
          \/ UnsubscribeSend(t) \/ UnsubscribeWait(t) \/ UnsubscribeEnd(t)
          \/ DisconnectStart(t) \/ DisconnectCheck(t) \/ DisconnectEnd(t)
          \/ Return(t)
    \/ PumpAcquire \/ PumpProcessLoop \/ PumpCallback \/ PumpClear \/ PumpRelease
    \/ WorkerGet \/ WorkerLock \/ WorkerCallback \/ WorkerClear \/ WorkerRelease
    \/ mqtt_awsport_network_disconnect_callback

Spec == Init /\ [][Next]_vars

\* the application connects, publishes and disconnects
NextSess ==
    \/ \E t \in AppThreads :
          \/ ConnectStart(t) \/ ConnectNet(t) \/ EstablishLock(t)
          \/ EstablishSession(t) \/ ConnectBranch(t)
          \/ PublishResend(t) \/ ConnectExit(t)
          \/ PublishStart(t) \/ PublishSlot(t) \/ PublishLock(t)
          \/ PublishSend(t) \/ PublishWait(t) \/ PublishEnd(t)
          \/ DisconnectStart(t) \/ DisconnectCheck(t) \/ DisconnectEnd(t)
          \/ Return(t)
    \/ PumpAcquire \/ PumpProcessLoop \/ PumpCallback \/ PumpClear \/ PumpRelease
    \/ WorkerGet \/ WorkerLock \/ WorkerCallback \/ WorkerClear \/ WorkerRelease
    \/ mqtt_awsport_network_disconnect_callback

SpecSess == Init /\ [][NextSess]_vars

\* the application connects, subscribes, unsubscribes and disconnects
NextSub ==
    \/ \E t \in AppThreads :
          \/ ConnectStart(t) \/ ConnectNet(t) \/ EstablishLock(t)
          \/ EstablishSession(t) \/ ConnectBranch(t)
          \/ PublishResend(t) \/ ConnectExit(t)
          \/ SubscribeStart(t) \/ SubscribeLock(t)
          \/ SubscribeSend(t) \/ SubscribeWait(t) \/ SubscribeEnd(t)
          \/ UnsubscribeStart(t) \/ UnsubscribeLock(t)
          \/ UnsubscribeSend(t) \/ UnsubscribeWait(t) \/ UnsubscribeEnd(t)
          \/ DisconnectStart(t) \/ DisconnectCheck(t) \/ DisconnectEnd(t)
          \/ Return(t)
    \/ PumpAcquire \/ PumpProcessLoop \/ PumpCallback \/ PumpClear \/ PumpRelease
    \/ WorkerGet \/ WorkerLock \/ WorkerCallback \/ WorkerClear \/ WorkerRelease
    \/ mqtt_awsport_network_disconnect_callback

SpecSub == Init /\ [][NextSub]_vars

\* the receive function of the transport interface, called by the codec
SpecRecv == Init /\ [][NextRecv]_vars

\* connect, publish, the receive thread, the worker and the transport, with
\* the scheduling the RTOS gives the disconnect event thread: it runs when it
\* is ready, and gets process_mutex if that is free again and again
NextLive ==
    \/ \E t \in AppThreads :
          \/ ConnectStart(t) \/ ConnectNet(t) \/ EstablishLock(t)
          \/ EstablishSession(t) \/ ConnectBranch(t)
          \/ PublishResend(t) \/ ConnectExit(t)
          \/ PublishStart(t) \/ PublishSlot(t) \/ PublishLock(t)
          \/ PublishSend(t) \/ PublishWait(t) \/ PublishEnd(t)
          \/ Return(t)
    \/ PumpAcquire \/ PumpProcessLoop \/ PumpCallback \/ PumpClear \/ PumpRelease
    \/ WorkerGet \/ WorkerLock \/ WorkerCallback \/ WorkerClear \/ WorkerRelease
    \/ mqtt_awsport_network_disconnect_callback

WorkerFairness ==
    /\ WF_vars(WorkerGet)
    /\ SF_vars(WorkerLock)
    /\ WF_vars(WorkerCallback)
    /\ WF_vars(WorkerClear)
    /\ WF_vars(WorkerRelease)

SpecLive == Init /\ [][NextLive]_vars /\ WorkerFairness

\* the client after cy_mqtt_connect( clean_session = true ) returned success
ConnectedObject ==
    [CreatedObject EXCEPT !.mqtt_session_established = TRUE,
                          !.mqtt_conn_status = TRUE,
                          !.recv_thread = TRUE]

InitPub ==
    /\ mqtt_obj = ConnectedObject
    /\ app = [t \in Publishers |-> IdleLocals]
    /\ pump = PumpStarted
    /\ worker = "get"
    /\ mqtt_disconnect_event_queue = 0
    /\ net = "up"
    /\ codec_unacked = <<>>
    /\ upcalls = <<>>
    /\ hist = "clean"
    /\ calls = 0
    /\ mqtt_lib_init_status = TRUE
    /\ mqtt_db_mutex_init_status = TRUE
    /\ mqtt_handle_count = 1
    /\ mqtt_handle_database = [i \in 1 .. MAX_HANDLE |-> IF i = 1 THEN 1 ELSE 0]
    /\ mqtt_obj_index = [h \in Handles |-> IF h = 1 THEN 1 ELSE 0]
    /\ mqtt_db_mutex = NoOwner
    /\ mqtt_disconnect_event_thread = TRUE
    /\ reg = [r \in RegThreads |-> RegIdle]
    /\ recv = RecvIdle

\* two application threads publish on the connected client while the receive
\* thread runs
NextPub ==
    \/ \E t \in Publishers :
          \/ PublishStart(t) \/ PublishSlot(t) \/ PublishLock(t)
          \/ PublishSend(t) \/ PublishWait(t) \/ PublishEnd(t)
          \/ Return(t)
    \/ PumpAcquire \/ PumpProcessLoop \/ PumpCallback \/ PumpClear \/ PumpRelease

SpecPub == InitPub /\ [][NextPub]_vars

\* the outgoing publish stores cy_mqtt_publish can be handed: every slot free
\* or holding an unacknowledged PUBLISH, no packet id in two slots
OccupiedPubPackets ==
    [packetid : PacketIds, qos : {1, 2}, dup : {FALSE}, retain : {FALSE},
     topic : {1}]

PublishStores ==
    {pkts \in [PubIndexes -> {EmptyPubPacket} \cup OccupiedPubPackets] :
        \A i, j \in PubIndexes :
           (i # j /\ pkts[i].packetid # MQTT_PACKET_ID_INVALID)
              => pkts[i].packetid # pkts[j].packetid}

\* the packet ids of the occupied slots, as the codec records them
StoreIds(pkts) ==
    SelectSeq([i \in PubIndexes |-> pkts[i].packetid],
              LAMBDA id : id # MQTT_PACKET_ID_INVALID)

\* the connected client with any of these stores
InitStore ==
    /\ \E pkts \in PublishStores :
          /\ mqtt_obj = [ConnectedObject EXCEPT !.outgoing_pub_packets = pkts]
          /\ codec_unacked = StoreIds(pkts)
    /\ app = [t \in Publishers |-> IdleLocals]
    /\ pump = PumpStarted
    /\ worker = "get"
    /\ mqtt_disconnect_event_queue = 0
    /\ net = "up"
    /\ upcalls = <<>>
    /\ hist = "clean"
    /\ calls = 0
    /\ mqtt_lib_init_status = TRUE
    /\ mqtt_db_mutex_init_status = TRUE
    /\ mqtt_handle_count = 1
    /\ mqtt_handle_database = [i \in 1 .. MAX_HANDLE |-> IF i = 1 THEN 1 ELSE 0]
    /\ mqtt_obj_index = [h \in Handles |-> IF h = 1 THEN 1 ELSE 0]
    /\ mqtt_db_mutex = NoOwner
    /\ mqtt_disconnect_event_thread = TRUE
    /\ reg = [r \in RegThreads |-> RegIdle]
    /\ recv = RecvIdle

\* the application thread publishes on that client while the receive thread
\* runs
NextStore ==
    \/ \E t \in AppThreads :
          \/ PublishStart(t) \/ PublishSlot(t) \/ PublishLock(t)
          \/ PublishSend(t) \/ PublishWait(t) \/ PublishEnd(t)
          \/ Return(t)
    \/ PumpAcquire \/ PumpProcessLoop \/ PumpCallback \/ PumpClear \/ PumpRelease

SpecStore == InitStore /\ [][NextStore]_vars

\* the connected client with any of these stores connects again: the
\* unacknowledged publishes of the store are the ones the codec reports to
\* mqtt_handle_publish_resend
NextResend ==
    \/ \E t \in AppThreads :
          \/ ConnectStart(t) \/ ConnectNet(t) \/ EstablishLock(t)
          \/ EstablishSession(t) \/ ConnectBranch(t)
          \/ PublishResend(t) \/ ConnectExit(t)
          \/ Return(t)
    \/ PumpAcquire \/ PumpProcessLoop \/ PumpCallback \/ PumpClear \/ PumpRelease

SpecResend == InitStore /\ [][NextResend]_vars

\* the client of the session model is the object with handle 1; it exists
\* until cy_mqtt_delete has cleared its slot and freed it
ClientExists == \E i \in 1 .. MAX_HANDLE : mqtt_handle_database[i] = 1

\* the application deletes the client once it is disconnected and no call on
\* it is in progress
DeleteDisconnected(r) ==
    /\ ~mqtt_obj.mqtt_conn_status
    /\ \A t \in AppThreads : app[t].pc = "idle"
    /\ DeleteStart(r)

\* the disconnect event thread takes a handle from the queue whose object
\* cy_mqtt_delete has freed: cy_rtos_get_mutex on the freed process_mutex and
\* the read of mqtt_session_established can give any result
WorkerLockDeleted ==
    /\ worker = "lock"
    /\ ~ClientExists
    /\ worker' \in {"get", "cb", "rel"}
    /\ UNCHANGED <<mqtt_obj, mqtt_disconnect_event_queue, upcalls>>
    /\ WorkerFrame

\* a step of a connect or disconnect call on the client, which the
\* application makes while the client exists and it is not deleting it
ClientCall(t) ==
    /\ ClientExists
    /\ \A r \in RegThreads : reg[r].pc = "idle"
    /\ \/ ConnectStart(t) \/ ConnectNet(t) \/ EstablishLock(t)
       \/ EstablishSession(t) \/ ConnectBranch(t)
       \/ PublishResend(t) \/ ConnectExit(t)
       \/ DisconnectStart(t) \/ DisconnectCheck(t) \/ DisconnectEnd(t)
       \/ Return(t)

\* the disconnect event thread takes the handle of the existing client
WorkerLockLive == ClientExists /\ WorkerLock

\* connect and disconnect on the client, the transport, both threads, and the
\* delete of the client
NextDel ==
    \/ \E t \in AppThreads : ClientCall(t)
    \/ PumpAcquire \/ PumpProcessLoop \/ PumpCallback \/ PumpClear \/ PumpRelease
    \/ WorkerGet \/ WorkerCallback \/ WorkerClear \/ WorkerRelease
    \/ WorkerLockLive \/ WorkerLockDeleted
    \/ mqtt_awsport_network_disconnect_callback
    \/ \E r \in RegThreads :
          \/ DeleteDisconnected(r) \/ DeleteLock(r) \/ DeleteClear(r)
          \/ RegReturn(r)

SpecDel == Init /\ [][NextDel]_vars

\* a step of an API call that application thread t has entered
CallStep(t) ==
    \/ ConnectNet(t) \/ EstablishLock(t)
    \/ EstablishSession(t) \/ ConnectBranch(t)
    \/ PublishResend(t) \/ ConnectExit(t)
    \/ PublishSlot(t) \/ PublishLock(t)
    \/ PublishSend(t) \/ PublishWait(t) \/ PublishEnd(t)
    \/ SubscribeLock(t)
    \/ SubscribeSend(t) \/ SubscribeWait(t) \/ SubscribeEnd(t)
    \/ UnsubscribeLock(t)
    \/ UnsubscribeSend(t) \/ UnsubscribeWait(t) \/ UnsubscribeEnd(t)
    \/ DisconnectCheck(t) \/ DisconnectEnd(t)

\* a step of the receive thread
PumpStep ==
    PumpAcquire \/ PumpProcessLoop \/ PumpCallback \/ PumpClear \/ PumpRelease

\* the application thread and the receive thread on the client
NextTerm ==
    \/ \E t \in AppThreads :
          \/ ConnectStart(t) \/ PublishStart(t) \/ SubscribeStart(t)
          \/ UnsubscribeStart(t) \/ DisconnectStart(t)
          \/ CallStep(t)
          \/ Return(t)
    \/ PumpStep

\* every codec and RTOS call returns, both threads keep running, and a thread
\* that waits for process_mutex gets it if it is free again and again
TermFairness ==
    /\ \A t \in AppThreads : SF_vars(CallStep(t))
    /\ WF_vars(PumpStep)

SpecTerm == Init /\ [][NextTerm]_vars /\ TermFairness

(* ------------------------------ claims -------------------------------- *)
ConnectBranched(t) == app[t].op = "connect" /\ app[t].ran # "none"

\* C1: in connect, after MQTT_Connect succeeded, the publish resend runs exactly
\* when the CONNACK reported sessionPresent and the caller's clean_session is
\* false; otherwise the outgoing publish store is cleaned
C1_ResendIffSessionResumed ==
    \A t \in AppThreads :
       ConnectBranched(t) =>
          (app[t].ran = "resend"
              <=> (mqtt_obj.broker_session_present /\ ~app[t].clean))

\* the PUBLISH packets a resumed session has to send again
ResendOf(recs) == [i \in 1 .. Len(recs) |-> [id |-> recs[i], dup |-> TRUE]]

\* C2: a reconnect with clean_session = false after the transport dropped a
\* clean_session = false session, answered with sessionPresent, has sent the
\* unacknowledged QoS1/2 publishes again, once each, with dup set, with their
\* packet ids and in their order, when connect returns success
C2_ResumedSessionResends ==
    \A t \in AppThreads :
       (/\ app[t].pc = "ret" /\ app[t].op = "connect"
        /\ app[t].result = "SUCCESS"
        /\ ~app[t].clean /\ app[t].pre
        /\ mqtt_obj.broker_session_present)
       => app[t].resent = ResendOf(app[t].expect)

RequestOps == {"publish", "subscribe", "unsubscribe"}

\* C3: once mqtt_event_cb has been given a DISCONNECT event, a publish,
\* subscribe or unsubscribe started afterwards returns NOT_CONNECTED (or
\* rejects its arguments) and sends nothing, until a connect succeeds again
C3_RequestsRefusedAfterDisconnectEvent ==
    [][\A t \in AppThreads :
          (/\ upcalls # <<>>
           /\ app[t].pc = "idle"
           /\ app'[t].op \in RequestOps)
          => (/\ app'[t].pc = "ret"
              /\ app'[t].result \in {"NOT_CONNECTED", "BADARG"})]_vars

\* C4: cy_mqtt_deinit called while the library is initialized and a client
\* exists returns DEINIT_FAIL and leaves the library initialized
C4_DeinitWithClientsFails ==
    \A r \in RegThreads :
       (reg[r].pc = "ret" /\ reg[r].op = "deinit" /\ reg[r].pre)
       => reg[r].result = "DEINIT_FAIL"

\* C5: whenever cy_mqtt_disconnect returns after it took process_mutex, the
\* calling thread no longer holds process_mutex
C5_DisconnectReleasesMutex ==
    \A t \in AppThreads :
       (app[t].pc = "ret" /\ app[t].op = "disconnect") => ~Holds(t)

\* C6: when MQTT_ProcessLoop in the receive thread returned RecvFailed,
\* SendFailed, BadResponse, IllegalState or KeepAliveTimeout, the session is no
\* longer established when the thread releases process_mutex in that round
C6_FatalStatusEndsSession ==
    [][(/\ mqtt_obj.process_mutex = "pump"
        /\ mqtt_obj'.process_mutex = NoOwner
        /\ pump.mqtt_status \in FatalStatuses)
       => ~mqtt_obj'.mqtt_session_established]_vars

\* C7: after MQTT_ProcessLoop in the receive thread returned KeepAliveTimeout,
\* the thread gives mqtt_event_cb one DISCONNECT event, BROKER_DOWN, then
\* clears mqtt_session_established; and it calls MQTT_ProcessLoop in a round
\* only when it read mqtt_session_established as true
C7_KeepAliveTimeoutEndsSession ==
    [][/\ (pump.pc = "cb" /\ pump'.pc \notin {"cb", "none"})
             => (/\ pump.mqtt_status = "MQTTKeepAliveTimeout"
                 /\ pump'.pc = "clr"
                 /\ upcalls' = <<"BROKER_DOWN">>
                 /\ upcalls = <<>>)
       /\ (pump.pc = "clr" /\ pump'.pc \notin {"clr", "none"})
             => (/\ ~mqtt_obj'.mqtt_session_established
                 /\ upcalls' = upcalls
                 /\ pump'.pc = "acquire")
       /\ (pump.pc # "pl" /\ pump'.pc = "pl")
             => mqtt_obj.mqtt_session_established
       /\ (pump.pc = "acquire" /\ mqtt_obj'.process_mutex = "pump"
           /\ ~mqtt_obj.mqtt_session_established)
             => pump'.pc = "rel"]_vars

\* the callback has been given BROKER_DOWN for the KeepAliveTimeout
C7_Witness ==
    /\ pump.pc = "clr"
    /\ pump.mqtt_status = "MQTTKeepAliveTimeout"
    /\ upcalls = <<"BROKER_DOWN">>

\* a disconnect notification is queued for the established session
C8_Notified ==
    mqtt_disconnect_event_queue > 0 /\ mqtt_obj.mqtt_session_established

C8_NetworkDownDelivered ==
    InSeq(upcalls, "NETWORK_DOWN") /\ ~mqtt_obj.mqtt_session_established

\* a publish started while the session is not established returns NOT_CONNECTED
PublishRefusedWithoutSession ==
    [][\A t \in AppThreads :
          (/\ ~mqtt_obj.mqtt_session_established
           /\ app[t].pc = "idle"
           /\ app'[t].op = "publish")
          => (app'[t].pc = "ret" /\ app'[t].result = "NOT_CONNECTED")]_vars

\* the worker clears the session only after it gave mqtt_event_cb NETWORK_DOWN
WorkerClearsAfterNetworkDown ==
    [][(worker = "clr" /\ worker' = "get")
       => (/\ InSeq(upcalls, "NETWORK_DOWN")
           /\ upcalls' = upcalls
           /\ ~mqtt_obj'.mqtt_session_established)]_vars

\* C8 as stated: if process_mutex is free again and again, a queued disconnect
\* notification of an established session leads to mqtt_event_cb being given
\* NETWORK_DOWN with the session no longer established
C8_NotificationLeadsToNetworkDown ==
    ([]<>MutexFree) => (C8_Notified ~> C8_NetworkDownDelivered)

\* C8: if process_mutex is free again and again, a queued disconnect
\* notification of an established session leads to the session no longer being
\* established; NETWORK_DOWN is given when it is the worker that finds the
\* session established and clears it; and a publish started without a session
\* returns NOT_CONNECTED
C8_NotificationEndsSession ==
    /\ ([]<>MutexFree) => (C8_Notified ~> ~mqtt_obj.mqtt_session_established)
    /\ WorkerClearsAfterNetworkDown
    /\ PublishRefusedWithoutSession

\* the worker has given NETWORK_DOWN and cleared the session
C8_Witness ==
    /\ upcalls = <<"NETWORK_DOWN">>
    /\ ~mqtt_obj.mqtt_session_established
    /\ worker = "get"
    /\ net = "dropped"

RequestSection == {"p_send", "p_wait", "p_end", "s_send", "s_wait", "s_end",
                   "u_send", "u_wait", "u_end"}

\* the threads inside a section process_mutex protects
InSection ==
    {t \in AppThreads : app[t].pc \in RequestSection \cup {"c_est", "d_disc"}}
    \cup (IF pump.pc \in {"pl", "cb", "clr", "rel"} THEN {"pump"} ELSE {})
    \cup (IF worker \in {"cb", "clr", "rel"} THEN {"worker"} ELSE {})

CodecCall(t) ==
    \/ app[t].pc \in {"c_est", "c_resend", "p_send", "p_wait", "s_send",
                      "s_wait", "u_send", "u_wait", "d_disc"}
    \/ app[t].pc = "c_exit" /\ mqtt_obj.mqtt_session_established

\* C10: every codec call on the client is made by a thread that holds
\* process_mutex, the publish resend and the MQTT_Disconnect of the unwinding
\* connect included
C10_CodecCallsUnderMutex ==
    /\ \A t \in AppThreads : CodecCall(t) => Holds(t)
    /\ pump.pc = "pl" => mqtt_obj.process_mutex = "pump"


\* C12: in every state, mqtt_session_established implies mqtt_conn_status, the
\* states of cy_mqtt_connect after mqtt_establish_session included
C12_SessionImpliesConnStatus ==
    mqtt_obj.mqtt_session_established => mqtt_obj.mqtt_conn_status

SubscribePcs == {"s_lock", "s_send", "s_wait", "s_end"}

\* C13: while no cy_mqtt_subscribe is in progress, num_of_subs_in_req is 0, also
\* after a subscribe that failed to send or got no SUBACK in all its rounds
C13_NoSubsOutsideSubscribe ==
    (\A t \in AppThreads : app[t].pc \notin SubscribePcs)
       => mqtt_obj.num_of_subs_in_req = 0


PublishSlotOf(t) == mqtt_obj.outgoing_pub_packets[app[t].index]

\* C11: publishes issued concurrently on the client are serialized, so that
\* what cy_mqtt_publish hands to MQTT_Publish in its first attempt is the topic,
\* payload and QoS of its own request
C11_PublishSendsOwnRequest ==
    \A t \in Publishers :
       (app[t].pc = "p_send" /\ app[t].retry = 0)
       => (/\ PublishSlotOf(t).topic = TopicOf(t)
           /\ PublishSlotOf(t).qos = app[t].qos)


\* the state SpecPub starts in, but for the calls made, is a state of Spec
ConnectedIdle ==
    /\ mqtt_obj = ConnectedObject
    /\ \A t \in Publishers : app[t] = IdleLocals
    /\ pump = PumpStarted /\ worker = "get" /\ net = "up"
    /\ mqtt_disconnect_event_queue = 0 /\ codec_unacked = <<>>
    /\ upcalls = <<>> /\ hist = "clean"


OccupiedSlots ==
    {i \in PubIndexes :
        mqtt_obj.outgoing_pub_packets[i].packetid # MQTT_PACKET_ID_INVALID}

NoCallInProgress == \A t \in AppThreads : app[t].pc \in {"idle", "ret"}

C16_SuccessNeedsOwnAck ==
    /\ [](\A t \in AppThreads :
             /\ (app[t].pc = "p_end" /\ app[t].result = "SUCCESS"
                 /\ app[t].qos # MQTTQoS0)
                   => app[t].seen
             /\ (app[t].pc = "p_send" /\ app[t].sent
                 /\ PublishSlotOf(t).packetid # MQTT_PACKET_ID_INVALID)
                   => (/\ PublishSlotOf(t).dup
                       /\ PublishSlotOf(t).packetid
                             = mqtt_obj.pub_ack_status.packetid))
    /\ [][\A t \in AppThreads :
             /\ (app[t].pc = "p_wait" /\ ~app[t].seen /\ app'[t].seen)
                   => (app'[t].pc = "p_end" /\ app'[t].result = "SUCCESS")
             /\ (app[t].pc = "p_end" /\ app[t].result = "SUCCESS"
                 /\ app'[t].pc = "ret")
                   => (/\ app'[t].result = "SUCCESS"
                       /\ mqtt_obj'.outgoing_pub_packets[app[t].index]
                             = EmptyPubPacket)]_vars

\* the ACK of the first attempt was missing, the second attempt's ACK arrived:
\* the QoS1/2 publish is about to return success
C16_Witness ==
    \E t \in AppThreads :
       /\ app[t].pc = "p_end" /\ app[t].retry = 2
       /\ app[t].qos # MQTTQoS0 /\ app[t].seen
       /\ app[t].result = "SUCCESS"


\* C17: every attempt of a publish hands the codec the slot with the nonzero
\* packet id the publish obtained and with the topic of the request, whatever
\* was dispatched in the wait before it
C17_RetrySendsSameRequest ==
    \A t \in AppThreads :
       app[t].pc = "p_send"
          => /\ PublishSlotOf(t).packetid # MQTT_PACKET_ID_INVALID
             /\ PublishSlotOf(t).packetid = mqtt_obj.pub_ack_status.packetid
             /\ PublishSlotOf(t).topic = TopicOf(t)


\* C18: a QoS0 publish never enters the ACK wait; the send that succeeds ends
\* it with success, leaving the codec's records and the upcalls untouched; and
\* it returns success with its slot free
C18_QoS0WithoutProcessLoop ==
    /\ [](\A t \in AppThreads :
             app[t].pc = "p_wait" => app[t].qos # MQTTQoS0)
    /\ [][\A t \in AppThreads :
             /\ (app[t].pc = "p_send" /\ app[t].qos = MQTTQoS0
                 /\ app'[t].sent /\ ~app[t].sent)
                   => (/\ app'[t].pc = "p_end"
                       /\ app'[t].result = "SUCCESS"
                       /\ codec_unacked' = codec_unacked
                       /\ upcalls' = upcalls)
             /\ (app[t].pc = "p_end" /\ app[t].qos = MQTTQoS0 /\ app[t].sent
                 /\ app'[t].pc = "ret")
                   => (/\ app'[t].result = "SUCCESS"
                       /\ mqtt_obj'.outgoing_pub_packets[app[t].index]
                             = EmptyPubPacket)]_vars

\* a QoS0 publish whose PUBLISH was sent is about to return
C18_Witness ==
    \E t \in AppThreads :
       /\ app[t].pc = "p_end" /\ app[t].op = "publish"
       /\ app[t].qos = MQTTQoS0 /\ app[t].sent
       /\ app[t].result = "SUCCESS"


\* a publish, subscribe or unsubscribe call of t that has not returned
RequestInProgress(t) ==
    /\ app[t].op \in {"publish", "subscribe", "unsubscribe"}
    /\ app[t].pc \notin {"idle", "ret"}

\* C19: every publish, subscribe and unsubscribe call returns
C19_RequestsTerminate ==
    \A t \in AppThreads : RequestInProgress(t) ~> (app[t].pc = "ret")


C21_MiscountedSubAckFails ==
    [][\A t \in AppThreads :
          /\ (app[t].pc = "s_wait" /\ app'[t].miscount)
                => /\ mqtt_obj.num_of_subs_in_req = app[t].count
                   /\ mqtt_obj'.num_of_subs_in_req = 0
                   /\ mqtt_obj'.sub_ack_status = mqtt_obj.sub_ack_status
                   /\ app'[t].pc = "s_end"
                   /\ app'[t].result = "SUBSCRIBE_FAIL"
                   /\ app'[t].alloc = [i \in 1 .. app[t].count |-> "INVALID"]
          /\ (app[t].pc = "s_end" /\ app[t].miscount /\ app'[t].pc = "ret")
                => /\ app'[t].result = "SUBSCRIBE_FAIL"
                   /\ app'[t].alloc = [i \in 1 .. app[t].count |-> "INVALID"]]_vars

\* a subscribe for two topics got a SUBACK with one return code and is about
\* to return
C21_Witness ==
    \E t \in AppThreads :
       /\ app[t].pc = "s_end" /\ app[t].miscount
       /\ app[t].count = 2
       /\ app[t].result = "SUBSCRIBE_FAIL"


\* every slot of outgoing_pub_packets holds a packet id
StoreFull ==
    \A i \in PubIndexes :
       mqtt_obj.outgoing_pub_packets[i].packetid # MQTT_PACKET_ID_INVALID

\* C22: the slot lookup of a publish that finds every slot occupied ends the
\* call with PUBLISH_FAIL; process_mutex, the packet id of the publish in
\* progress, every slot and the codec's records are as before
C22_FullStoreRefusesPublish ==
    [][\A t \in AppThreads :
          (app[t].pc = "p_slot" /\ StoreFull /\ app'[t] # app[t])
             => /\ app'[t].pc = "ret"
                /\ app'[t].result = "PUBLISH_FAIL"
                /\ ~app'[t].sent
                /\ mqtt_obj' = mqtt_obj
                /\ codec_unacked' = codec_unacked]_vars

\* a publish returned PUBLISH_FAIL from its slot lookup on a full store
C22_Witness ==
    \E t \in AppThreads :
       /\ app[t].pc = "ret" /\ app[t].op = "publish"
       /\ app[t].result = "PUBLISH_FAIL" /\ ~app[t].sent
       /\ StoreFull


\* the clients registered in mqtt_handle_database
RegisteredSlots == {i \in 1 .. MAX_HANDLE : mqtt_handle_database[i] # 0}

\* C23: the handle count is the number of registered clients and never exceeds
\* MAX_HANDLE; a create that compares the count, or searches a slot, while
\* MAX_HANDLE clients exist returns CREATE_FAIL and leaves the database and
\* the count as they were, also when another create runs at the same time
C23_CreateRefusedWhenFull ==
    /\ [](/\ mqtt_handle_count = Cardinality(RegisteredSlots)
          /\ mqtt_handle_count <= MAX_HANDLE)
    /\ [][\A r \in RegThreads :
             (/\ reg[r].pc \in {"cr_count", "cr_slot"}
              /\ mqtt_handle_count = MAX_HANDLE
              /\ reg'[r] # reg[r])
                => /\ reg'[r].pc = "ret"
                   /\ reg'[r].result = "CREATE_FAIL"
                   /\ mqtt_handle_database' = mqtt_handle_database
                   /\ mqtt_handle_count' = mqtt_handle_count]_vars

\* a create was refused while MAX_HANDLE clients exist and the library is
\* initialized
C23_Witness ==
    \E r \in RegThreads :
       /\ reg[r].pc = "ret" /\ reg[r].op = "create"
       /\ reg[r].result = "CREATE_FAIL"
       /\ mqtt_lib_init_status /\ mqtt_db_mutex_init_status
       /\ mqtt_handle_count = MAX_HANDLE


\* objects a create can register: not in the database
FreshHandles == Handles \ {mqtt_handle_database[i] : i \in 1 .. MAX_HANDLE}

\* C24: for every state of the registry with a free slot, registering a new
\* object and deleting it again gives back the same database and the same
\* handle count, the slot that was used is empty, and the next create finds
\* that same slot
C24_CreateDeleteRestores ==
    \A h \in FreshHandles :
       FreeSlot(mqtt_handle_database) # 0 =>
          LET slot == FreeSlot(mqtt_handle_database)
              created == RegistryAfterCreate(Registry, h)
              deleted == RegistryAfterDelete(created, h)
          IN  /\ created.db[slot] = h
              /\ created.count = mqtt_handle_count + 1
              /\ deleted.db[slot] = 0
              /\ deleted.db = mqtt_handle_database
              /\ deleted.count = mqtt_handle_count
              /\ FreeSlot(deleted.db) = slot

\* a delete returned success while the other client stays registered in the
\* second slot: the first slot is free again
C24_Witness ==
    \E r \in RegThreads :
       /\ reg[r].pc = "ret" /\ reg[r].op = "delete" /\ reg[r].result = "SUCCESS"
       /\ mqtt_handle_database[1] = 0
       /\ mqtt_handle_database[MAX_HANDLE] # 0
       /\ mqtt_handle_count = MAX_HANDLE - 1


\* C25: the TCP/TLS retry loop of connect ends without a transport only when
\* the backoff reports retries exhausted; connect then returns CONNECT_FAIL,
\* having sent no MQTT CONNECT and changed nothing in the client
C25_ExhaustedRetriesFail ==
    [][\A t \in AppThreads :
          (app[t].pc = "c_net" /\ app'[t].pc = "ret")
             => /\ RetriesExhausted(app[t].attempts + 1)
                /\ app'[t].result = "CONNECT_FAIL"
                /\ mqtt_obj' = mqtt_obj
                /\ codec_unacked' = codec_unacked]_vars


\* positions of cy_mqtt_connect after the transport is up
ConnectPcsAfterTransport == {"c_est_lock", "c_est", "c_thread", "c_resend", "c_exit"}

C27_DisconnectAlwaysCompletes ==
    [][\A t \in AppThreads :
          (/\ app[t].op = "disconnect"
           /\ mqtt_obj.mqtt_obj_initialized /\ mqtt_obj.mqtt_conn_status
           /\ app'[t].pc = "ret")
             => /\ app'[t].result = "SUCCESS"
                /\ ~mqtt_obj'.mqtt_session_established
                /\ ~mqtt_obj'.mqtt_conn_status
                /\ ~mqtt_obj'.recv_thread
                /\ pump'.pc = "none"]_vars


\* C28: whenever the receive thread is terminated, by disconnect or by the
\* exit path of connect, it does not own process_mutex at that moment
C28_PumpTerminatedWithoutMutex ==
    [][(pump.pc # "none" /\ pump'.pc = "none")
          => mqtt_obj.process_mutex # "pump"]_vars


C30_EveryAckSetsStatus ==
    \A out \in MQTT_ProcessLoop(codec_unacked) :
       out.pkt.type \in {"PUBACK", "PUBREC"}
          => LET o == mqtt_event_callback(mqtt_obj, out.pkt)
                 index == FirstIndexWith(mqtt_obj.outgoing_pub_packets, out.pkt.id)
             IN  /\ o.pub_ack_status.puback_status
                       = (out.pkt.id = mqtt_obj.pub_ack_status.packetid)
                 /\ \A i \in PubIndexes :
                       o.outgoing_pub_packets[i]
                          = IF i = index THEN EmptyPubPacket
                            ELSE mqtt_obj.outgoing_pub_packets[i]

\* C30: a PUBACK / PUBREC that was deserialized sets puback_status to
\* (packet id = pub_ack_status.packetid), one that was not leaves puback_status
\* as it was; either frees the first slot of outgoing_pub_packets that holds
\* the packet id and changes nothing else of the client
C30_AckSetsStatusAndFreesSlot ==
    \A out \in MQTT_ProcessLoop(codec_unacked) :
       out.pkt.type \in {"PUBACK", "PUBREC"}
          => LET o == mqtt_event_callback(mqtt_obj, out.pkt)
                 index == FirstIndexWith(mqtt_obj.outgoing_pub_packets, out.pkt.id)
                 acked == IF out.pkt.ok
                          THEN out.pkt.id = mqtt_obj.pub_ack_status.packetid
                          ELSE mqtt_obj.pub_ack_status.puback_status
             IN  o = [mqtt_obj EXCEPT
                        !.pub_ack_status.puback_status = acked,
                        !.outgoing_pub_packets =
                           [i \in PubIndexes |->
                               IF i = index THEN EmptyPubPacket ELSE @[i]]]

\* the PUBACK / PUBREC of the publish in progress was dispatched: its slot is
\* free again and puback_status is set, while another slot still holds its
\* unacknowledged PUBLISH
C30_Witness ==
    \E t \in AppThreads :
       /\ app[t].seen
       /\ mqtt_obj.pub_ack_status.puback_status
       /\ mqtt_obj.outgoing_pub_packets[app[t].index].packetid
             = MQTT_PACKET_ID_INVALID
       /\ \E j \in PubIndexes :
             /\ j # app[t].index
             /\ mqtt_obj.outgoing_pub_packets[j].packetid
                   \notin {MQTT_PACKET_ID_INVALID, mqtt_obj.pub_ack_status.packetid}


\* the positions at which an application thread runs MQTT_ProcessLoop
AckWaitPcs == {"p_wait", "s_wait", "u_wait"}

\* C31: unsub_ack_received turns true only in a step that runs
\* MQTT_ProcessLoop, every UNSUBACK handed to the callback sets it to
\* (packet id = sent_packet_id) and no other packet changes it, and an
\* unsubscribe ends with success only when an UNSUBACK with the id of its
\* UNSUBSCRIBE was dispatched in its wait
C31_UnsubscribeNeedsOwnAck ==
    /\ [](\A pkt \in Packets :
             mqtt_event_callback(mqtt_obj, pkt).unsub_ack_received
                = IF pkt.type = "UNSUBACK"
                  THEN pkt.id = mqtt_obj.sent_packet_id
                  ELSE mqtt_obj.unsub_ack_received)
    /\ [](\A t \in AppThreads :
             (/\ app[t].op = "unsubscribe" /\ app[t].pc = "u_end"
              /\ app[t].result = "SUCCESS")
                => app[t].seen)
    /\ [][(mqtt_obj'.unsub_ack_received /\ ~mqtt_obj.unsub_ack_received)
             => (pump.pc = "pl" \/ \E t \in AppThreads : app[t].pc \in AckWaitPcs)]_vars

\* the UNSUBACK of the first attempt was missing, the second attempt's
\* UNSUBACK arrived: the unsubscribe is about to return success
C31_Witness ==
    \E t \in AppThreads :
       /\ app[t].op = "unsubscribe" /\ app[t].pc = "u_end"
       /\ app[t].retry = 2 /\ app[t].seen
       /\ app[t].result = "SUCCESS"
       /\ mqtt_obj.unsub_ack_received


\* C32: mqtt_awsport_network_receive returns the transport's negative value
\* as soon as a transport call returns one, returns 0 when its first transport
\* call returns 0, and otherwise returns total_received, which is never more
\* than the bytes requested
C32_ReceiveResult ==
    [][recv.pc = "loop"
          => /\ recv'.bytes_received < 0
                   => (recv'.pc = "ret" /\ recv'.result = recv'.bytes_received)
             /\ (~recv.called /\ recv'.bytes_received = 0)
                   => (recv'.pc = "ret" /\ recv'.result = 0)
             /\ (recv'.pc = "ret" /\ recv'.bytes_received >= 0)
                   => recv'.result = recv'.total_received
             /\ recv'.total_received <= recv'.bytes_recv]_vars

\* the transport failed after part of the bytes had been read
C32_Witness ==
    /\ recv.pc = "ret"
    /\ recv.total_received > 0
    /\ recv.bytes_received < 0
    /\ recv.result < 0

\* C33: after partial data the loop of mqtt_awsport_network_receive makes no
\* further transport call once the time spent in zero-byte calls since the
\* last data has reached CY_MQTT_MESSAGE_RECEIVE_TIMEOUT_MS
C33_ReceiveStopsWhenBudgetSpent ==
    (recv.pc = "loop" /\ recv.total_received > 0)
       => recv.waited < CY_MQTT_MESSAGE_RECEIVE_TIMEOUT_MS


\* C34: a DISCONNECT upcall is made only while mqtt_session_established is
\* true and is the only one since the last successful connect, and the steps
\* of cy_mqtt_disconnect make none
C34_UpcallOncePerSession ==
    [][/\ (upcalls' # upcalls /\ upcalls' # <<>>)
             => (mqtt_obj.mqtt_session_established /\ upcalls = <<>>)
       /\ \A t \in AppThreads :
             (app[t].op = "disconnect" /\ app'[t] # app[t])
                => upcalls' = upcalls]_vars


\* C35: the disconnect event thread makes its NETWORK_DOWN upcall and clears
\* mqtt_session_established only for the session whose transport raised the
\* notification: it ends no session that was opened with clean_session =
\* false and whose transport has not dropped since
C35_NotificationEndsOwnSession ==
    [][(worker = "cb" /\ worker' = "clr")
          => ~(hist = "persistent" /\ net = "up")]_vars


\* C36: whenever the disconnect event thread goes on from a handle it has
\* taken from the queue to lock its process_mutex, the client of that handle
\* has not been deleted
C36_WorkerUsesLiveClient ==
    [][(worker = "lock" /\ worker' # "lock") => ClientExists]_vars


\* the positions at which a request hands its packet to the codec
SendPcs == {"p_send", "s_send", "u_send"}

\* C37: publish, subscribe and unsubscribe call MQTT_Publish, MQTT_Subscribe
\* and MQTT_Unsubscribe only while mqtt_session_established is true
C37_SendsOnlyInSession ==
    [][\A t \in AppThreads :
          (app[t].pc \in SendPcs /\ app'[t] # app[t])
             => mqtt_obj.mqtt_session_established]_vars


\* the positions of an application thread that is inside cy_mqtt_publish
PublishPcs == {"p_slot", "p_lock", "p_send", "p_wait", "p_end"}

RegisteredHandles == {mqtt_handle_database[i] : i \in RegisteredSlots}

\* C39: whenever mqtt_db_mutex is free, after any interleaving of creates and
\* of deletes of different clients, mqtt_handle_count is the number of slots
\* of mqtt_handle_database that hold a handle and is at most MAX_HANDLE, every
\* registered client is in exactly one slot, the one at its mqtt_obj_index,
\* and a create that registers its object puts it in the free slot with the
\* lowest index and changes no other slot
C39_RegistryConsistent ==
    /\ [](mqtt_db_mutex = NoOwner =>
            /\ mqtt_handle_count = Cardinality(RegisteredSlots)
            /\ mqtt_handle_count <= MAX_HANDLE
            /\ \A h \in RegisteredHandles :
                  /\ mqtt_obj_index[h] \in 1 .. MAX_HANDLE
                  /\ \A i \in 1 .. MAX_HANDLE :
                        mqtt_handle_database[i] = h <=> i = mqtt_obj_index[h])
    /\ [][\A r \in RegThreads :
             (reg[r].pc = "cr_slot" /\ reg'[r].pc = "ret"
              /\ reg'[r].result = "SUCCESS")
             => \E i \in 1 .. MAX_HANDLE :
                   /\ mqtt_handle_database[i] = 0
                   /\ \A j \in 1 .. i - 1 : mqtt_handle_database[j] # 0
                   /\ mqtt_handle_database'[i] = reg[r].handle
                   /\ mqtt_obj_index'[reg[r].handle] = i
                   /\ \A j \in 1 .. MAX_HANDLE :
                         j # i => mqtt_handle_database'[j] = mqtt_handle_database[j]]_vars

\* a create has registered its object in the first slot, which a delete had
\* freed while the object allocated before it stays in the last slot
C39_Witness ==
    /\ mqtt_db_mutex = NoOwner
    /\ \E r \in RegThreads :
          reg[r].pc = "ret" /\ reg[r].op = "create" /\ reg[r].result = "SUCCESS"
    /\ mqtt_handle_database[MAX_HANDLE] # 0
    /\ mqtt_handle_database[1] > mqtt_handle_database[MAX_HANDLE]
    /\ mqtt_obj_index[mqtt_handle_database[1]] = 1
    /\ mqtt_handle_count = MAX_HANDLE


\* C40: the PUBLISH that cy_mqtt_publish hands to MQTT_Publish in its first
\* attempt carries the retain flag of the caller's request and dup = false,
\* and the retain flag of the slot stays the same over the rounds of the
\* retry loop
C40_PublishCarriesRequestFlags ==
    [][\A t \in DOMAIN app :
          /\ (app[t].pc = "p_send" /\ app[t].retry = 0 /\ app'[t] # app[t])
             => /\ PublishSlotOf(t).retain = app[t].retain
                /\ PublishSlotOf(t).dup = FALSE
          /\ (app[t].pc \in {"p_send", "p_wait"} /\ app'[t] # app[t])
             => mqtt_obj'.outgoing_pub_packets[app[t].index].retain
                   = PublishSlotOf(t).retain]_vars

=============================================================================
